---- MODULE Spec2Model ----
(***************************************************************************)
(* Typst.NET native core (typst-net-core): the virtual file system host    *)
(* (BackendWorld), the compiler session and document handle, and the       *)
(* memory bridge of the C boundary (lib.rs, memory.rs, document.rs).       *)
(*                                                                         *)
(* Paths are sequences of components, texts are sequences of bytes,        *)
(* pointers are heap addresses (0 is the null pointer).  The typesetting   *)
(* engine (typst::compile, typst_svg::svg, typst_pdf::pdf) is outside the  *)
(* repository; it is represented by a table of sample programs, the        *)
(* sources used by the repository's own tests.                             *)
(***************************************************************************)
EXTENDS Integers, Sequences, FiniteSets, TLC

VARIABLES
    platform,   \* target of the build: decides std::path::absolute and Path::exists
    world,      \* a BackendWorld driven directly (typst_backend.rs), or NoWorld
    heap,       \* boundary-owned allocations, by address
    sessions,   \* compiler handles the caller holds
    results,    \* CompileResults the caller holds
    buffers,    \* Buffers the caller holds
    arrays,     \* BufferArrays the caller holds
    ub,         \* an allocation was released twice or rebuilt with the wrong shape
    last        \* the last operation: its name, its arguments and what it returned

vars == <<platform, world, heap, sessions, results, buffers, arrays, ub, last>>

-----------------------------------------------------------------------------
(* Bounds of the model *)

\* handles (sessions, results, buffers, arrays) the caller holds at a time
MaxHeld == 2

-----------------------------------------------------------------------------
(* Pointers *)

NULL == 0
\* the non-null pointer of a Vec that owns no allocation (capacity 0)
DANGLING == -1

-----------------------------------------------------------------------------
(* The file system the host runs on *)

Platforms == {"posix", "windows"}

NoEntry == <<"">>

Dirs ==
    { <<>>, <<"t">>, <<"t", "ws">>, <<"t", "pk">>, <<"t", "pk", "preview">>,
      <<"t", "pk", "preview", "mylib">>,
      <<"t", "pk", "preview", "mylib", "0.1.0">> }

Files ==
    { <<"t", "secret.typ">>, <<"t", "ws", "a.typ">>, <<"t", "ws", "main.typ">>,
      <<"t", "ws", "bin.dat">>,
      <<"t", "pk", "preview", "mylib", "0.1.0", "lib.typ">> }

\* a symbolic link inside the workspace that points out of it
LinkAt == <<"t", "ws", "lnk">>
LinkTo == <<"t">>

\* the bytes of each file: "x", "a\nb", "disk", an invalid UTF-8 byte, "lib"
FileBytes(p) ==
    CASE p = <<"t", "secret.typ">> -> <<120>>
      [] p = <<"t", "ws", "a.typ">> -> <<97, 10, 98>>
      [] p = <<"t", "ws", "main.typ">> -> <<100, 105, 115, 107>>
      [] p = <<"t", "ws", "bin.dat">> -> <<255>>
      [] OTHER -> <<108, 105, 98>>

Parent(p) == IF p = <<>> THEN <<>> ELSE SubSeq(p, 1, Len(p) - 1)

\* one directory entry, a link replaced by its target
Entry(p) ==
    IF p = LinkAt THEN LinkTo
    ELSE IF p \in Dirs \cup Files THEN p
    ELSE NoEntry

\* the kernel's walk of a path from directory cur
RECURSIVE Walk(_, _)
Walk(cur, rest) ==
    IF rest = <<>> THEN cur
    ELSE IF cur \notin Dirs THEN NoEntry
    ELSE Walk(IF Head(rest) = ".." THEN Parent(cur) ELSE Entry(Append(cur, Head(rest))),
              Tail(rest))

\* ".." removed lexically, as the Windows path API does before any lookup
RECURSIVE Lexical(_, _)
Lexical(done, rest) ==
    IF rest = <<>> THEN done
    ELSE Lexical(IF Head(rest) = ".." THEN Parent(done) ELSE Append(done, Head(rest)),
                 Tail(rest))

\* the file or directory a path names, or NoEntry
Real(plat, p) == Walk(<<>>, IF plat = "windows" THEN Lexical(<<>>, p) ELSE p)

\* Path::exists and Path::is_dir
exists(plat, p) == Real(plat, p) # NoEntry
is_dir(plat, p) == Real(plat, p) \in Dirs

\* Path::join of a relative path
join(base, rel) == base \o rel

\* std::path::absolute of an absolute path: POSIX keeps "..", Windows resolves
\* it lexically; neither follows links
absolute(plat, p) == IF plat = "windows" THEN Lexical(<<>>, p) ELSE p

\* Path::starts_with: a whole-component prefix
starts_with(p, base) == Len(base) <= Len(p) /\ SubSeq(p, 1, Len(base)) = base

-----------------------------------------------------------------------------
(* UTF-8 *)

IsCont(b) == b >= 128 /\ b <= 191

\* std::str::from_utf8 succeeds
RECURSIVE Utf8Valid(_)
Utf8Valid(bs) ==
    IF bs = <<>> THEN TRUE
    ELSE LET b == bs[1]
             n == Len(bs)
         IN  IF b < 128 THEN Utf8Valid(Tail(bs))
             ELSE IF b >= 194 /\ b <= 223
                  THEN n >= 2 /\ IsCont(bs[2]) /\ Utf8Valid(SubSeq(bs, 3, n))
             ELSE IF b >= 224 /\ b <= 239
                  THEN /\ n >= 3 /\ IsCont(bs[2]) /\ IsCont(bs[3])
                       /\ (b = 224 => bs[2] >= 160)
                       /\ (b = 237 => bs[2] <= 159)
                       /\ Utf8Valid(SubSeq(bs, 4, n))
             ELSE IF b >= 240 /\ b <= 244
                  THEN /\ n >= 4 /\ IsCont(bs[2]) /\ IsCont(bs[3]) /\ IsCont(bs[4])
                       /\ (b = 240 => bs[2] >= 144)
                       /\ (b = 244 => bs[2] <= 143)
                       /\ Utf8Valid(SubSeq(bs, 5, n))
             ELSE FALSE

-----------------------------------------------------------------------------
(* File identities *)

NoPackage == <<>>

FileId(package, vpath) == [package |-> package, vpath |-> vpath]

\* FileId::new(None, VirtualPath::new("main.typ"))
MainId == FileId(NoPackage, <<"main.typ">>)

PreviewMylib == <<"preview", "mylib", "0.1.0">>

\* identities the engine may ask for: virtual paths are normalised, so ".."
\* only leads; a package's namespace and name are free strings
FileIds ==
    { FileId(NoPackage, v) :
        v \in { <<"main.typ">>, <<"a.typ">>, <<"bin.dat">>, <<"nope.typ">>,
                <<"..", "secret.typ">>, <<"..", "ws", "a.typ">>,
                <<"lnk", "secret.typ">>, <<"..", "nope.typ">> } }
    \cup
    { FileId(PreviewMylib, v) :
        v \in { <<"lib.typ">>, <<"nope.typ">>, <<"a.typ">>,
                <<"..", "..", "..", "..", "secret.typ">> } }
    \cup
    { FileId(<<"preview", "..", "0.1.0">>, <<"..", "..", "secret.typ">>),
      FileId(<<"..", "ws", "0.1.0">>, <<"..", "a.typ">>) }

-----------------------------------------------------------------------------
(* Options and text crossing the boundary *)

None == [some |-> FALSE]
Some(v) == [some |-> TRUE, v |-> v]

\* a value computed once and named: let v = ...; In(v)
Let(v, In(_)) == In(v)

\* the characters path names are spelled with
Chr(b) ==
    CASE b = 46 -> "."
      [] b = 97 -> "a"
      [] b = 107 -> "k"
      [] b = 110 -> "n"
      [] b = 112 -> "p"
      [] b = 115 -> "s"
      [] b = 116 -> "t"
      [] b = 119 -> "w"
      [] b = 121 -> "y"
      [] OTHER -> "?"

RECURSIVE Decode(_)
Decode(bs) == IF bs = <<>> THEN "" ELSE Chr(Head(bs)) \o Decode(Tail(bs))

\* PathBuf::from of an absolute path string: its components between '/'
RECURSIVE PathBufFrom(_, _)
PathBufFrom(bs, cur) ==
    IF bs = <<>> THEN (IF cur = <<>> THEN <<>> ELSE <<Decode(cur)>>)
    ELSE IF Head(bs) = 47
         THEN (IF cur = <<>> THEN <<>> ELSE <<Decode(cur)>>) \o PathBufFrom(Tail(bs), <<>>)
    ELSE PathBufFrom(Tail(bs), Append(cur, Head(bs)))

\* "/t/ws", "/t/pk", "/t/n" and "/t/ws/a.typ"
BytesWs == <<47, 116, 47, 119, 115>>
BytesPk == <<47, 116, 47, 112, 107>>
BytesNo == <<47, 116, 47, 110>>
BytesFile == <<47, 116, 47, 119, 115, 47, 97, 46, 116, 121, 112>>
\* a byte that is no UTF-8
BytesBad == <<255>>

\* serde_json::from_str, on the JSON texts used: "{}", "[]", "{" and other text
JsonParse(bs) ==
    CASE bs = <<123, 125>> -> [ok |-> TRUE, v |-> [tag |-> "object", fields |-> <<>>]]
      [] bs = <<91, 93>> -> [ok |-> TRUE, v |-> [tag |-> "array", items |-> <<>>]]
      [] OTHER -> [ok |-> FALSE]

\* json_to_typst: an object becomes a dictionary, anything else its own value
json_to_typst(json) ==
    IF json.tag = "object" THEN [tag |-> "dict", fields |-> json.fields]
    ELSE [tag |-> json.tag]

EmptyDict == [tag |-> "dict", fields |-> <<>>]

\* FontSearcher::search_with: the fonts of the given directories, the system
\* fonts when asked for, and the embedded fonts
search_with(custom_font_paths, include_system_fonts) ==
    [i \in 1..Len(custom_font_paths) |-> <<"dir", custom_font_paths[i]>>]
    \o (IF include_system_fonts THEN <<"system">> ELSE <<>>)
    \o <<"embedded">>

-----------------------------------------------------------------------------
(* BackendWorld *)

NoWorld == [live |-> FALSE]

Source(id, text) == [id |-> id, text |-> text]

\* a construction that takes a package path of any kind once it exists
BackendWorld_new_any_package(plat, root, inputs_json, package_path, custom_font_paths, include_system_fonts) ==
    IF ~exists(plat, root) THEN [ok |-> FALSE, err |-> "Root path does not exist"]
    ELSE IF ~is_dir(plat, root) THEN [ok |-> FALSE, err |-> "Root path is not a directory"]
    ELSE IF package_path.some /\ ~exists(plat, package_path.v)
         THEN [ok |-> FALSE, err |-> "Package path does not exist"]
    ELSE IF inputs_json.some /\ ~JsonParse(inputs_json.v).ok
         THEN [ok |-> FALSE, err |-> "Invalid inputs JSON"]
    ELSE [ok |-> TRUE,
          world |->
            [live |-> TRUE,
             root |-> root,
             main_source |-> Source(MainId, <<>>),
             main_id |-> MainId,
             fonts |-> search_with(custom_font_paths, include_system_fonts),
             library |-> IF inputs_json.some
                         THEN Let(json_to_typst(JsonParse(inputs_json.v).v),
                                  LAMBDA v : IF v.tag = "dict" THEN v ELSE EmptyDict)
                         ELSE EmptyDict,
             source_cache |-> {},
             binary_cache |-> {},
             package_path |-> package_path]]

\* BackendWorld::new: Ok(world) or Err(message)
BackendWorld_new(plat, root, inputs_json, package_path, custom_font_paths, include_system_fonts) ==
    IF ~exists(plat, root) THEN [ok |-> FALSE, err |-> "Root path does not exist"]
    ELSE IF ~is_dir(plat, root) THEN [ok |-> FALSE, err |-> "Root path is not a directory"]
    ELSE IF package_path.some /\ ~exists(plat, package_path.v)
         THEN [ok |-> FALSE, err |-> "Package path does not exist"]
    ELSE IF package_path.some /\ ~is_dir(plat, package_path.v)
         THEN [ok |-> FALSE, err |-> "Package path is not a directory"]
    ELSE IF inputs_json.some /\ ~JsonParse(inputs_json.v).ok
         THEN [ok |-> FALSE, err |-> "Invalid inputs JSON"]
    ELSE [ok |-> TRUE,
          world |->
            [live |-> TRUE,
             root |-> root,
             main_source |-> Source(MainId, <<>>),
             main_id |-> MainId,
             fonts |-> search_with(custom_font_paths, include_system_fonts),
             library |-> IF inputs_json.some
                         THEN Let(json_to_typst(JsonParse(inputs_json.v).v),
                                  LAMBDA v : IF v.tag = "dict" THEN v ELSE EmptyDict)
                         ELSE EmptyDict,
             source_cache |-> {},
             binary_cache |-> {},
             package_path |-> package_path]]

\* an update that also keeps the text in the source cache, as the source of
\* the workspace's a.typ
update_source_caches(w, source_text) ==
    [w EXCEPT !.main_source = Source(w.main_id, source_text),
              !.source_cache = {Source(FileId(NoPackage, <<"a.typ">>), source_text)}]

\* an update that also searches the fonts again, without the system's
update_source_drops_fonts(w, source_text) ==
    [w EXCEPT !.main_source = Source(w.main_id, source_text),
              !.fonts = search_with(<<>>, FALSE)]

\* an update that adds the new text to the text already there
update_source_appends(w, source_text) ==
    [w EXCEPT !.main_source = Source(w.main_id, w.main_source.text \o source_text)]

\* BackendWorld::update_source
update_source(w, source_text) ==
    [w EXCEPT !.main_source = Source(w.main_id, source_text)]

AccessDenied == [ok |-> FALSE, err |-> "AccessDenied"]
NotFound(path) == [ok |-> FALSE, err |-> "NotFound", path |-> path]
Ok(v) == [ok |-> TRUE, v |-> v]

\* a package branch that looks in the workspace when no package path is set
resolve_package_falls_back(plat, w, id) ==
    IF w.package_path.some
    THEN Let(join(join(join(join(w.package_path.v, <<id.package[1]>>),
                                 <<id.package[2]>>),
                            <<id.package[3]>>),
                  id.vpath),
             LAMBDA path : IF ~exists(plat, path) THEN NotFound(path) ELSE Ok(path))
    ELSE Let(join(w.root, id.vpath), LAMBDA path :
             IF ~exists(plat, path) THEN AccessDenied ELSE Ok(path))

\* the package branch of BackendWorld::resolve_path
resolve_package(plat, w, id) ==
    IF w.package_path.some
    THEN Let(join(join(join(join(w.package_path.v, <<id.package[1]>>),
                                 <<id.package[2]>>),
                            <<id.package[3]>>),
                  id.vpath),
             LAMBDA path : IF ~exists(plat, path) THEN NotFound(path) ELSE Ok(path))
    ELSE AccessDenied

\* a workspace branch that answers AccessDenied for a path that is not there
resolve_workspace_denies_missing(plat, w, id) ==
    Let(join(w.root, id.vpath), LAMBDA path :
        Let(absolute(plat, w.root), LAMBDA absolute_root :
            Let(absolute(plat, path), LAMBDA absolute_path :
                IF ~starts_with(absolute_path, absolute_root) THEN AccessDenied
                ELSE IF ~exists(plat, path) THEN AccessDenied
                ELSE Ok(path))))

\* the workspace branch of BackendWorld::resolve_path
resolve_workspace(plat, w, id) ==
    Let(join(w.root, id.vpath), LAMBDA path :
        Let(absolute(plat, w.root), LAMBDA absolute_root :
            Let(absolute(plat, path), LAMBDA absolute_path :
                IF ~starts_with(absolute_path, absolute_root) THEN AccessDenied
                ELSE IF ~exists(plat, path) THEN NotFound(path)
                ELSE Ok(path))))

\* BackendWorld::resolve_path
resolve_path(plat, w, id) ==
    IF id.package # NoPackage THEN resolve_package(plat, w, id)
    ELSE resolve_workspace(plat, w, id)

\* fs::read: the bytes of a file, or an I/O error turned into a FileError
fs_read(plat, path) ==
    Let(Real(plat, path), LAMBDA real :
        IF real \in Files THEN Ok(FileBytes(real))
        ELSE IF real = NoEntry THEN NotFound(path)
        ELSE [ok |-> FALSE, err |-> "Other"])

\* fs::read_to_string: as fs::read, and the bytes must be UTF-8
fs_read_to_string(plat, path) ==
    Let(fs_read(plat, path), LAMBDA r :
        IF r.ok /\ ~Utf8Valid(r.v) THEN [ok |-> FALSE, err |-> "InvalidUtf8"] ELSE r)

\* what a host capability did besides answering: whether it asked the path
\* sandbox, and which path it read from disk
Answer(result, resolved, read) ==
    [result |-> result, resolved |-> resolved, read |-> read]

NotResolved == [called |-> FALSE]
Resolved(r) == [called |-> TRUE, r |-> r]

\* World::source
source(plat, w, id) ==
    IF id = w.main_id THEN Answer(Ok(w.main_source), NotResolved, None)
    ELSE IF \E s \in w.source_cache : s.id = id
         THEN Answer(Ok(CHOOSE s \in w.source_cache : s.id = id), NotResolved, None)
    ELSE Let(resolve_path(plat, w, id), LAMBDA path :
             IF ~path.ok THEN Answer(path, Resolved(path), None)
             ELSE Let(fs_read_to_string(plat, path.v), LAMBDA text :
                      Answer(IF text.ok THEN Ok(Source(id, text.v)) ELSE text,
                             Resolved(path), Some(path.v))))

\* World::file
file(plat, w, id) ==
    Let(resolve_path(plat, w, id), LAMBDA path :
        IF ~path.ok THEN Answer(path, Resolved(path), None)
        ELSE Answer(fs_read(plat, path.v), Resolved(path), Some(path.v)))

\* offset_hours as i8: the low 8 bits of the i64, read as a signed byte
as_i8(n) == ((n + 128) % 256) - 128

\* time::UtcOffset::from_hms(hours, 0, 0): hours from -25 to 25, else an error
from_hms(hours) == IF hours >= -25 /\ hours <= 25 THEN Ok(hours) ELSE [ok |-> FALSE]

\* OffsetDateTime::to_offset: the clock, in hours since a midnight UTC, read
\* at a fixed offset
to_offset(now, offset) == now + offset

\* Datetime::from_ymd_hms of the fields of a clock reading: its day and hour
from_ymd_hms(reading) == Some([day |-> reading \div 24, hour |-> reading % 24])

\* World::today; now_utc is the clock, now_local the offset of the local time
\* when the platform can tell it
today(offset, now_utc, now_local) ==
    IF offset.some
    THEN Let(from_hms(as_i8(offset.v)), LAMBDA utc_offset :
             IF ~utc_offset.ok THEN None
             ELSE from_ymd_hms(to_offset(now_utc, utc_offset.v)))
    ELSE IF ~now_local.some THEN None
    ELSE from_ymd_hms(to_offset(now_utc, now_local.v))

\* World::font: the font of a slot of the inventory, none past its end
font(w, index) == IF index < Len(w.fonts) THEN Some(w.fonts[index + 1]) ELSE None

-----------------------------------------------------------------------------
(* The typesetting engine: sample programs and what compiling each does *)

\* a span of the engine: detached, or a byte range in the source of an identity
Detached == [id |-> None, range |-> None]
SpanIn(id, start, end) == [id |-> Some(id), range |-> Some(<<start, end>>)]

SourceDiagnostic(severity, span, message, hints) ==
    [severity |-> severity, span |-> span, message |-> message, hints |-> hints]

Req(cap, id) == [cap |-> cap, id |-> id]

\* "= H": one page
SrcHello == <<61, 32, 72>>
\* "1\n#p\n2", for "= Page 1\n#pagebreak()\n= Page 2": two pages
SrcTwo == <<49, 10, 35, 112, 10, 50>>
\* "a\n#w": one page and a warning with a hint, at the start of line 2
SrcWarn == <<97, 10, 35, 119>>
\* "#(", for "#let x = (unclosed": an error, and a warning without a place
SrcBad == <<35, 40>>
\* "#r", for #read("nope.typ"): asks for the bytes of a file that is not there
SrcRead == <<35, 114>>
\* "#i", for #import "a.typ": asks for a source; warns at line 2 of that source
SrcImport == <<35, 105>>
\* "#k", for #import "@preview/mylib:0.1.0": asks for a package's source
SrcPkg == <<35, 107>>
\* "#z": a document without pages
SrcZero == <<35, 122>>
\* "\u00e9(\n#r": an error of its own after a character of two bytes, a file
\* that is not there, and two warnings
SrcBoth == <<195, 169, 40, 10, 35, 114>>
\* "#s": four warnings, one in the text, one past its end, one in a source
\* that the host does not find when the warning is translated, one nowhere
SrcStale == <<35, 115>>

Program(text) ==
    CASE text = SrcTwo ->
            [pages |-> 2, errors |-> <<>>, warnings |-> <<>>, requests |-> <<>>]
      [] text = SrcWarn ->
            [pages |-> 1, errors |-> <<>>,
             warnings |-> <<SourceDiagnostic("Warning", SpanIn(MainId, 2, 4),
                                             "unknown font family", <<"check the name">>)>>,
             requests |-> <<>>]
      [] text = SrcBad ->
            [pages |-> 0,
             errors |-> <<SourceDiagnostic("Error", SpanIn(MainId, 1, 2),
                                           "unclosed delimiter", <<>>)>>,
             warnings |-> <<SourceDiagnostic("Warning", Detached, "deprecated", <<>>)>>,
             requests |-> <<>>]
      [] text = SrcRead ->
            [pages |-> 1, errors |-> <<>>, warnings |-> <<>>,
             requests |-> <<Req("file", FileId(NoPackage, <<"nope.typ">>))>>]
      [] text = SrcImport ->
            [pages |-> 1, errors |-> <<>>,
             warnings |-> <<SourceDiagnostic("Warning",
                                             SpanIn(FileId(NoPackage, <<"a.typ">>), 2, 3),
                                             "unused", <<>>)>>,
             requests |-> <<Req("source", FileId(NoPackage, <<"a.typ">>))>>]
      [] text = SrcPkg ->
            [pages |-> 1, errors |-> <<>>, warnings |-> <<>>,
             requests |-> <<Req("source", FileId(PreviewMylib, <<"lib.typ">>))>>]
      [] text = SrcZero ->
            [pages |-> 0, errors |-> <<>>, warnings |-> <<>>, requests |-> <<>>]
      [] text = SrcBoth ->
            [pages |-> 0,
             errors |-> <<SourceDiagnostic("Error", SpanIn(MainId, 2, 3),
                                           "unclosed delimiter", <<>>)>>,
             warnings |-> <<SourceDiagnostic("Warning", Detached, "deprecated", <<>>),
                            SourceDiagnostic("Warning", SpanIn(MainId, 4, 6),
                                             "unknown font family",
                                             <<"check the name", "or install it">>)>>,
             requests |-> <<Req("file", FileId(NoPackage, <<"nope.typ">>))>>]
      [] text = SrcStale ->
            [pages |-> 1, errors |-> <<>>,
             warnings |-> <<SourceDiagnostic("Warning", SpanIn(MainId, 0, 2), "unused", <<>>),
                            SourceDiagnostic("Warning", SpanIn(MainId, 7, 9), "unused", <<>>),
                            SourceDiagnostic("Warning",
                                             SpanIn(FileId(NoPackage, <<"nope.typ">>), 0, 1),
                                             "unused", <<>>),
                            SourceDiagnostic("Warning", Detached, "deprecated", <<>>)>>,
             requests |-> <<>>]
      [] OTHER ->
            [pages |-> 1, errors |-> <<>>, warnings |-> <<>>, requests |-> <<>>]

\* one call of the engine back into the host
Request(plat, w, rq) ==
    IF rq.cap = "source" THEN source(plat, w, rq.id) ELSE file(plat, w, rq.id)

\* the engine's error for a file it could not load
FileErrorDiagnostic(err) ==
    SourceDiagnostic("Error", SpanIn(MainId, 0, 2),
                     IF err = "NotFound" THEN "file not found"
                     ELSE IF err = "AccessDenied" THEN "failed to load file (access denied)"
                     ELSE "failed to load file",
                     <<>>)

Page(text, n) == [text |-> text, n |-> n]

\* typst::compile::<PagedDocument>(world): the main source is read through
\* World::source, every request of the program through the host
typst_compile(plat, w) ==
    Let(source(plat, w, w.main_id).result.v.text, LAMBDA main :
        Let(Program(main), LAMBDA prog :
            Let([i \in 1..Len(prog.requests) |->
                    Request(plat, w, prog.requests[i]).result],
                LAMBDA answers :
                Let(SelectSeq(answers, LAMBDA a : ~a.ok), LAMBDA failed :
                    Let(prog.errors
                        \o [i \in 1..Len(failed) |-> FileErrorDiagnostic(failed[i].err)],
                        LAMBDA errors :
                        [output |-> IF errors = <<>>
                                    THEN Ok([pages |-> [n \in 1..prog.pages |->
                                                          Page(main, n)]])
                                    ELSE [ok |-> FALSE, errors |-> errors],
                         warnings |-> prog.warnings])))))

\* typst_svg::svg(page), as bytes: "<svg" and the page's number
svg(page) == <<60, 115, 118, 103, 48 + page.n>>

-----------------------------------------------------------------------------
(* Diagnostics *)

IsNewline(b) == b = 10 \/ b = 13

\* Lines::byte_to_line: the 0-based line of a byte offset, none past the end
RECURSIVE NewlinesBefore(_, _)
NewlinesBefore(text, idx) ==
    IF idx = 0 THEN 0
    ELSE NewlinesBefore(text, idx - 1)
         + (IF /\ IsNewline(text[idx])
               /\ ~(text[idx] = 13 /\ idx < Len(text) /\ text[idx + 1] = 10)
            THEN 1 ELSE 0)

byte_to_line(text, idx) ==
    IF idx <= Len(text) THEN Some(NewlinesBefore(text, idx)) ELSE None

\* the offset at which the line holding idx starts
RECURSIVE LineStart(_, _)
LineStart(text, idx) ==
    IF idx = 0 \/ IsNewline(text[idx]) THEN idx ELSE LineStart(text, idx - 1)

\* Lines::byte_to_column: the characters between the line's start and idx,
\* none past the end or inside a character
byte_to_column(text, idx) ==
    IF idx <= Len(text) /\ (idx = Len(text) \/ ~IsCont(text[idx + 1]))
    THEN Some(Cardinality({i \in (LineStart(text, idx) + 1)..idx : ~IsCont(text[i])}))
    ELSE None

\* Source::range(span): the span's byte range when it lies in this source
source_range(src, span) ==
    IF span.range.some /\ span.range.v[2] <= Len(src.text) THEN span.range ELSE None

BackendDiagnostic(severity, message, location) ==
    [severity |-> severity, message |-> message, location |-> location]

BackendLocation(line, column, length) ==
    [line |-> line, column |-> column, length |-> length]

\* the hints appended last first
RECURSIVE with_hints_reversed(_, _)
with_hints_reversed(message, hints) ==
    IF hints = <<>> THEN message
    ELSE with_hints_reversed(message \o "\nHint: " \o hints[Len(hints)],
                             SubSeq(hints, 1, Len(hints) - 1))

\* the message of convert_diagnostic: push_str of "\nHint: " and of the hint,
\* for each hint in turn
RECURSIVE with_hints(_, _)
with_hints(message, hints) ==
    IF hints = <<>> THEN message
    ELSE with_hints(message \o "\nHint: " \o Head(hints), Tail(hints))

\* the location part of convert_diagnostic with the engine's 0-based column
convert_location_zero_based(span, plat, w) ==
    IF ~span.id.some THEN None
    ELSE Let(source(plat, w, span.id.v).result, LAMBDA src :
             IF ~src.ok THEN None
             ELSE Let(source_range(src.v, span), LAMBDA range :
                      IF ~range.some THEN None
                      ELSE Let(byte_to_line(src.v.text, range.v[1]), LAMBDA l :
                           Let(byte_to_column(src.v.text, range.v[1]), LAMBDA c :
                           Let(IF l.some THEN l.v + 1 ELSE 0, LAMBDA line :
                           Let(IF c.some THEN c.v ELSE 0, LAMBDA col :
                           Let(range.v[2] - range.v[1], LAMBDA length :
                               IF line > 0
                               THEN Some(BackendLocation(line, col, length))
                               ELSE None)))))))

\* the location part of convert_diagnostic; the casts to u32 keep every
\* offset of a text shorter than 2^32 bytes
convert_location(span, plat, w) ==
    IF ~span.id.some THEN None
    ELSE Let(source(plat, w, span.id.v).result, LAMBDA src :
             IF ~src.ok THEN None
             ELSE Let(source_range(src.v, span), LAMBDA range :
                      IF ~range.some THEN None
                      ELSE Let(byte_to_line(src.v.text, range.v[1]), LAMBDA l :
                           Let(byte_to_column(src.v.text, range.v[1]), LAMBDA c :
                           Let(IF l.some THEN l.v + 1 ELSE 0, LAMBDA line :
                           Let(IF c.some THEN c.v + 1 ELSE 0, LAMBDA col :
                           Let(range.v[2] - range.v[1], LAMBDA length :
                               IF line > 0
                               THEN Some(BackendLocation(line, col, length))
                               ELSE None)))))))

\* convert_diagnostic
convert_diagnostic(diag, plat, w) ==
    BackendDiagnostic(diag.severity, with_hints(diag.message, diag.hints),
                      convert_location(diag.span, plat, w))

convert_all(diags, plat, w) ==
    [i \in 1..Len(diags) |-> convert_diagnostic(diags[i], plat, w)]

\* a compile that hands out a document although the engine failed
BackendWorld_compile_keeps_document(plat, w) ==
    Let(typst_compile(plat, w), LAMBDA warned :
        [success |-> warned.output.ok,
         document |-> Some([inner |-> IF warned.output.ok THEN warned.output.v
                                      ELSE [pages |-> <<>>]]),
         diagnostics |-> convert_all(warned.warnings, plat, w)])

\* a compile that puts the warnings before the errors
BackendWorld_compile_warnings_first(plat, w) ==
    Let(typst_compile(plat, w), LAMBDA warned :
        Let(convert_all(warned.warnings, plat, w), LAMBDA warnings :
            IF warned.output.ok
            THEN [success |-> TRUE,
                  document |-> Some([inner |-> warned.output.v]),
                  diagnostics |-> warnings]
            ELSE [success |-> FALSE,
                  document |-> None,
                  diagnostics |-> warnings
                                  \o convert_all(warned.output.errors, plat, w)]))

\* BackendWorld::compile
BackendWorld_compile(plat, w) ==
    Let(typst_compile(plat, w), LAMBDA warned :
        Let(convert_all(warned.warnings, plat, w), LAMBDA warnings :
            IF warned.output.ok
            THEN [success |-> TRUE,
                  document |-> Some([inner |-> warned.output.v]),
                  diagnostics |-> warnings]
            ELSE [success |-> FALSE,
                  document |-> None,
                  diagnostics |-> convert_all(warned.output.errors, plat, w)
                                  \o warnings]))

\* BackendDocument::page_count
page_count(doc) == Len(doc.inner.pages)

\* BackendDocument::render_page_svg
render_page_svg(doc, page_index) ==
    IF page_index >= Len(doc.inner.pages)
    THEN [ok |-> FALSE, err |-> "Page index out of bounds"]
    ELSE Ok(svg(doc.inner.pages[page_index + 1]))

\* the pages rendered last to first
render_all_pages_svg_reversed(doc) ==
    IF doc.inner.pages = <<>>
    THEN [ok |-> FALSE, err |-> "Document has no pages to render"]
    ELSE Ok([i \in 1..Len(doc.inner.pages) |->
                svg(doc.inner.pages[Len(doc.inner.pages) + 1 - i])])

\* BackendDocument::render_all_pages_svg
render_all_pages_svg(doc) ==
    IF doc.inner.pages = <<>>
    THEN [ok |-> FALSE, err |-> "Document has no pages to render"]
    ELSE Ok([i \in 1..Len(doc.inner.pages) |-> svg(doc.inner.pages[i])])

\* typst_pdf::pdf(document, options), which the repository does not hold: when
\* the export works the bytes "%PDF" and the number of pages, else its errors
pdf(doc, exported) ==
    IF exported THEN Ok(<<37, 80, 68, 70, 48 + Len(doc.inner.pages)>>)
    ELSE [ok |-> FALSE, errors |-> <<"font not embeddable", "image not supported">>]

RECURSIVE join_messages(_)
join_messages(messages) ==
    IF Len(messages) = 1 THEN Head(messages)
    ELSE Head(messages) \o "; " \o join_messages(Tail(messages))

\* BackendDocument::render_pdf
render_pdf(doc, exported) ==
    Let(pdf(doc, exported), LAMBDA outcome :
        IF outcome.ok THEN outcome
        ELSE [ok |-> FALSE,
              err |-> "PDF rendering failed: " \o join_messages(outcome.errors)])

-----------------------------------------------------------------------------
(* The heap of boundary-owned allocations *)

\* the allocator keeps an arena for each type it allocates: the boxed compiler
\* and document, the Vec of diagnostics, the String of a message, the Vec<u8>
\* of a page, the Vec of Buffers
Arenas == <<"compiler", "document", "diagnostics", "string", "vec", "buffers">>

\* room for what the caller may hold (a result has at most two messages, a
\* document at most two pages), and for the call made when it holds all of it
ArenaSize(arena) ==
    IF arena \in {"string", "vec"} THEN 2 * MaxHeld + 2 ELSE MaxHeld + 1

RECURSIVE ArenaEnd(_)
ArenaEnd(i) == IF i = 0 THEN 0 ELSE ArenaEnd(i - 1) + ArenaSize(Arenas[i])

Arena(arena) ==
    Let(CHOOSE i \in 1..Len(Arenas) : Arenas[i] = arena,
        LAMBDA i : (ArenaEnd(i - 1) + 1)..ArenaEnd(i))

Addr == 1..ArenaEnd(Len(Arenas))

FREE == [kind |-> "free"]

Live(h, a) == a \in Addr /\ h[a].kind # "free"

\* the allocator hands out the lowest free address of the arena
Alloc(h, arena) ==
    CHOOSE a \in Arena(arena) :
        ~Live(h, a) /\ \A b \in Arena(arena) : ~Live(h, b) => a <= b

\* the heap and the undefined-behaviour flag, threaded through the releases
Mem(h, u) == [heap |-> h, ub |-> u]

\* dropping a Vec or Box rebuilt from a raw pointer: the allocation must be
\* live, of that kind and of that capacity
Dealloc(m, ptr, kind, cap) ==
    IF Live(m.heap, ptr) /\ m.heap[ptr].kind = kind /\ m.heap[ptr].cap = cap
    THEN Mem([m.heap EXCEPT ![ptr] = FREE], m.ub)
    ELSE Mem(m.heap, TRUE)

\* Box::into_raw(Box::new(value))
BoxIntoRaw(h, kind, value) ==
    Let(Alloc(h, kind), LAMBDA a :
        [heap |-> [h EXCEPT ![a] = [kind |-> kind, value |-> value, cap |-> 1]],
         ptr |-> a])

-----------------------------------------------------------------------------
(* memory.rs *)

Buffer(data, len) == [data |-> data, len |-> len]
BufferArray(bufs, len) == [buffers |-> bufs, len |-> len]

\* the bytes of a String or Vec<u8> given away: shrink_to_fit leaves capacity =
\* length, and an empty one owns nothing
forget_bytes(h, arena, v) ==
    IF Len(v) = 0 THEN [heap |-> h, buffer |-> Buffer(DANGLING, 0)]
    ELSE Let(Alloc(h, arena), LAMBDA a :
             [heap |-> [h EXCEPT ![a] = [kind |-> "bytes", value |-> v, cap |-> Len(v)]],
              buffer |-> Buffer(a, Len(v))])

\* string_to_buffer
string_to_buffer(h, s) == forget_bytes(h, "string", s)

\* vec_to_buffer
vec_to_buffer(h, v) == forget_bytes(h, "vec", v)

\* vecs.into_iter().map(vec_to_buffer).collect()
RECURSIVE map_vec_to_buffer(_, _)
map_vec_to_buffer(h, vecs) ==
    IF Len(vecs) = 0 THEN [heap |-> h, items |-> <<>>]
    ELSE Let(vec_to_buffer(h, Head(vecs)), LAMBDA first :
             Let(map_vec_to_buffer(first.heap, Tail(vecs)), LAMBDA rest :
                 [heap |-> rest.heap, items |-> <<first.buffer>> \o rest.items]))

\* a Vec of items given away: shrink_to_fit, as_mut_ptr, len, forget
forget_vec(h, kind, items) ==
    IF Len(items) = 0 THEN [heap |-> h, ptr |-> DANGLING, len |-> 0]
    ELSE Let(Alloc(h, kind), LAMBDA a :
             [heap |-> [h EXCEPT ![a] = [kind |-> kind, value |-> items,
                                          cap |-> Len(items)]],
              ptr |-> a, len |-> Len(items)])

\* vecs_to_buffer_array
vecs_to_buffer_array(h, vecs) ==
    Let(map_vec_to_buffer(h, vecs), LAMBDA inner :
        Let(forget_vec(inner.heap, "buffers", inner.items), LAMBDA outer :
            [heap |-> outer.heap, array |-> BufferArray(outer.ptr, outer.len)]))

SeverityError == 0
SeverityWarning == 1

SourceLocation(line, column, length) ==
    [line |-> line, column |-> column, length |-> length]

\* create_diagnostic
create_diagnostic(h, severity, message, location) ==
    Let(string_to_buffer(h, message), LAMBDA message_buf :
        [heap |-> message_buf.heap,
         diagnostic |->
            [severity |-> severity,
             message |-> message_buf.buffer.data,
             message_len |-> message_buf.buffer.len,
             location |-> IF location.some
                          THEN SourceLocation(location.v.line, location.v.column,
                                              location.v.length)
                          ELSE SourceLocation(0, 0, 0)]])

\* the array given away as any other Vec, an empty one included
diagnostics_to_array_any(h, diagnostics) == forget_vec(h, "diagnostics", diagnostics)

\* diagnostics_to_array
diagnostics_to_array(h, diagnostics) ==
    IF Len(diagnostics) = 0 THEN [heap |-> h, ptr |-> NULL, len |-> 0]
    ELSE forget_vec(h, "diagnostics", diagnostics)

\* a release that rebuilds the Vec whatever the pointer and the length are
free_buffer_unchecked(m, buffer) == Dealloc(m, buffer.data, "bytes", buffer.len)

\* free_buffer
free_buffer(m, buffer) ==
    IF buffer.data # NULL /\ buffer.len > 0
    THEN Dealloc(m, buffer.data, "bytes", buffer.len)
    ELSE m

RECURSIVE free_each_buffer(_, _)
free_each_buffer(m, bufs) ==
    IF Len(bufs) = 0 THEN m
    ELSE free_each_buffer(free_buffer(m, Head(bufs)), Tail(bufs))

\* the items of a Vec rebuilt from a raw pointer; nothing when it is not one
ItemsAt(m, ptr, kind) ==
    IF Live(m.heap, ptr) /\ m.heap[ptr].kind = kind THEN m.heap[ptr].value ELSE <<>>

\* free_buffer_array
free_buffer_array(m, array) ==
    IF array.buffers # NULL /\ array.len > 0
    THEN Dealloc(free_each_buffer(m, ItemsAt(m, array.buffers, "buffers")),
                 array.buffers, "buffers", array.len)
    ELSE m

RECURSIVE free_each_message(_, _)
free_each_message(m, diags) ==
    IF Len(diags) = 0 THEN m
    ELSE free_each_message(
            IF Head(diags).message # NULL /\ Head(diags).message_len > 0
            THEN Dealloc(m, Head(diags).message, "bytes", Head(diags).message_len)
            ELSE m,
            Tail(diags))

\* the array of diagnostics released without the messages it points to
free_diagnostics_leaks_messages(m, diagnostics, len) ==
    IF diagnostics # NULL /\ len > 0
    THEN Dealloc(m, diagnostics, "diagnostics", len)
    ELSE m

\* free_diagnostics
free_diagnostics(m, diagnostics, len) ==
    IF diagnostics # NULL /\ len > 0
    THEN Dealloc(free_each_message(m, ItemsAt(m, diagnostics, "diagnostics")),
                 diagnostics, "diagnostics", len)
    ELSE m

-----------------------------------------------------------------------------
(* compiler.rs *)

\* a pointer and a length given by the caller: null, or the bytes it points to
NullSpan == [null |-> TRUE, bytes |-> <<>>]
Span(bytes) == [null |-> FALSE, bytes |-> bytes]

Absent(span) == span.null \/ Len(span.bytes) = 0

\* #[derive(Default)] of CompilerOptions: false and null pointers
CompilerOptions_default ==
    [null |-> FALSE, include_system_fonts |-> FALSE, inputs_json |-> NullSpan,
     custom_font_paths |-> NullSpan, package_path |-> NullSpan]

NullOptions == [null |-> TRUE]

CompilerOptions(include_system_fonts, inputs_json, custom_font_paths, package_path) ==
    [null |-> FALSE, include_system_fonts |-> include_system_fonts,
     inputs_json |-> inputs_json, custom_font_paths |-> custom_font_paths,
     package_path |-> package_path]

Err(message) == [ok |-> FALSE, err |-> message]

\* CompilerInstance::parse_inputs
parse_inputs(options) ==
    IF Absent(options.inputs_json) THEN Ok(None)
    ELSE IF ~Utf8Valid(options.inputs_json.bytes) THEN Err("Invalid UTF-8 in inputs JSON")
    ELSE IF ~JsonParse(options.inputs_json.bytes).ok THEN Err("Invalid inputs JSON")
    ELSE Ok(Some(options.inputs_json.bytes))

\* serde_json::from_str::<Vec<String>>, on the texts used: [] and ["/t/pk"]
JsonStrings(bs) ==
    CASE bs = <<91, 93>> -> Ok(<<>>)
      [] bs = <<91, 34>> \o BytesPk \o <<34, 93>> -> Ok(<<BytesPk>>)
      [] OTHER -> Err("Invalid font paths JSON")

\* font paths that are no list of strings taken as no font paths
parse_custom_font_paths_lenient(options) ==
    IF Absent(options.custom_font_paths) THEN Ok(<<>>)
    ELSE IF ~Utf8Valid(options.custom_font_paths.bytes)
         THEN Err("Invalid UTF-8 in custom font paths")
    ELSE Let(JsonStrings(options.custom_font_paths.bytes), LAMBDA paths :
             IF ~paths.ok THEN Ok(<<>>)
             ELSE Ok([i \in 1..Len(paths.v) |-> PathBufFrom(paths.v[i], <<>>)]))

\* CompilerInstance::parse_custom_font_paths
parse_custom_font_paths(options) ==
    IF Absent(options.custom_font_paths) THEN Ok(<<>>)
    ELSE IF ~Utf8Valid(options.custom_font_paths.bytes)
         THEN Err("Invalid UTF-8 in custom font paths")
    ELSE Let(JsonStrings(options.custom_font_paths.bytes), LAMBDA paths :
             IF ~paths.ok THEN paths
             ELSE Ok([i \in 1..Len(paths.v) |-> PathBufFrom(paths.v[i], <<>>)]))

\* CompilerInstance::new
CompilerInstance_new(plat, root, options) ==
    Let(parse_inputs(options), LAMBDA inputs :
        IF ~inputs.ok THEN inputs
        ELSE IF ~Absent(options.package_path) /\ ~Utf8Valid(options.package_path.bytes)
             THEN Err("Invalid UTF-8 in package path")
        ELSE Let(parse_custom_font_paths(options), LAMBDA fonts :
                 IF ~fonts.ok THEN fonts
                 ELSE Let(BackendWorld_new(plat, root, inputs.v,
                              IF Absent(options.package_path) THEN None
                              ELSE Some(PathBufFrom(options.package_path.bytes, <<>>)),
                              fonts.v, options.include_system_fonts),
                          LAMBDA w : IF w.ok THEN Ok([world |-> w.world]) ELSE w)))

\* convert_backend_diagnostic
convert_backend_diagnostic(h, backend_diag) ==
    create_diagnostic(h,
        IF backend_diag.severity = "Error" THEN SeverityError ELSE SeverityWarning,
        backend_diag.message, backend_diag.location)

\* the diagnostics of the backend dropped instead of converted
map_convert_backend_diagnostic_none(h, diags) == [heap |-> h, items |-> <<>>]

\* backend_result.diagnostics.into_iter().map(convert_backend_diagnostic).collect()
RECURSIVE map_convert_backend_diagnostic(_, _)
map_convert_backend_diagnostic(h, diags) ==
    IF Len(diags) = 0 THEN [heap |-> h, items |-> <<>>]
    ELSE Let(convert_backend_diagnostic(h, Head(diags)), LAMBDA first :
             Let(map_convert_backend_diagnostic(first.heap, Tail(diags)), LAMBDA rest :
                 [heap |-> rest.heap, items |-> <<first.diagnostic>> \o rest.items]))

CompileResult(success, diagnostics, diagnostics_len, document) ==
    [success |-> success, diagnostics |-> diagnostics,
     diagnostics_len |-> diagnostics_len, document |-> document]

\* a document that takes the place of the documents compiled before it
box_document_replaces(h, document) ==
    IF document.some
    THEN BoxIntoRaw([a \in Addr |-> IF h[a].kind = "document" THEN FREE ELSE h[a]],
                    "document", [backend_doc |-> document.v])
    ELSE [heap |-> h, ptr |-> NULL]

\* a document handed out again when an equal one is live already
box_document_shared(h, document) ==
    IF document.some
    THEN IF \E a \in Arena("document") :
                Live(h, a) /\ h[a].value = [backend_doc |-> document.v]
         THEN [heap |-> h,
               ptr |-> CHOOSE a \in Arena("document") :
                           Live(h, a) /\ h[a].value = [backend_doc |-> document.v]]
         ELSE BoxIntoRaw(h, "document", [backend_doc |-> document.v])
    ELSE [heap |-> h, ptr |-> NULL]

\* the document part of CompilerInstance::compile
box_document(h, document) ==
    IF document.some THEN BoxIntoRaw(h, "document", [backend_doc |-> document.v])
    ELSE [heap |-> h, ptr |-> NULL]

\* CompilerInstance::compile
CompilerInstance_compile(h, plat, compiler) ==
    Let(BackendWorld_compile(plat, compiler.world), LAMBDA backend_result :
        Let(map_convert_backend_diagnostic(h, backend_result.diagnostics),
            LAMBDA diagnostics :
            Let(diagnostics_to_array(diagnostics.heap, diagnostics.items), LAMBDA array :
                Let(box_document(array.heap, backend_result.document), LAMBDA document :
                    [heap |-> document.heap,
                     result |-> CompileResult(backend_result.success, array.ptr,
                                              array.len, document.ptr)]))))

-----------------------------------------------------------------------------
(* lib.rs and document.rs *)

\* typst_net_compiler_create
typst_net_compiler_create(h, plat, root_path, options) ==
    IF Absent(root_path) THEN [heap |-> h, ptr |-> NULL]
    ELSE IF ~Utf8Valid(root_path.bytes) THEN [heap |-> h, ptr |-> NULL]
    ELSE Let(CompilerInstance_new(plat, PathBufFrom(root_path.bytes, <<>>),
                 IF options.null THEN CompilerOptions_default ELSE options),
             LAMBDA compiler :
                 IF compiler.ok THEN BoxIntoRaw(h, "compiler", compiler.v)
                 ELSE [heap |-> h, ptr |-> NULL])

\* a release that rebuilds the Box without asking whether the pointer is null
typst_net_compiler_free_unchecked(m, compiler) == Dealloc(m, compiler, "compiler", 1)

\* a session that owns the documents compiled so far and drops them with itself
typst_net_compiler_free_drops_documents(m, compiler) ==
    IF compiler # NULL
    THEN Dealloc(Mem([a \in Addr |-> IF m.heap[a].kind = "document" THEN FREE
                                     ELSE m.heap[a]],
                     m.ub),
                 compiler, "compiler", 1)
    ELSE m

\* typst_net_compiler_free
typst_net_compiler_free(m, compiler) ==
    IF compiler # NULL THEN Dealloc(m, compiler, "compiler", 1) ELSE m

FailedResult == CompileResult(FALSE, NULL, 0, NULL)

\* a compile that empties the main text before it refuses a source that is not
\* UTF-8
typst_net_compiler_compile_clears_source(h, plat, compiler, src) ==
    IF compiler = NULL THEN [heap |-> h, result |-> FailedResult]
    ELSE Let([world |-> update_source(h[compiler].value.world,
                                      IF Absent(src) \/ ~Utf8Valid(src.bytes) THEN <<>>
                                      ELSE src.bytes)],
             LAMBDA updated :
                 IF ~Absent(src) /\ ~Utf8Valid(src.bytes)
                 THEN [heap |-> [h EXCEPT ![compiler].value = updated],
                       result |-> FailedResult]
                 ELSE CompilerInstance_compile([h EXCEPT ![compiler].value = updated],
                                               plat, updated))

\* a compile that, given no source, compiles the text it holds
typst_net_compiler_compile_reuses_source(h, plat, compiler, src) ==
    IF compiler = NULL THEN [heap |-> h, result |-> FailedResult]
    ELSE IF ~Absent(src) /\ ~Utf8Valid(src.bytes) THEN [heap |-> h, result |-> FailedResult]
    ELSE Let(IF Absent(src) THEN h[compiler].value.world.main_source.text ELSE src.bytes,
             LAMBDA source_str :
             Let([world |-> update_source(h[compiler].value.world, source_str)],
                 LAMBDA updated :
                 CompilerInstance_compile([h EXCEPT ![compiler].value = updated],
                                          plat, updated)))

\* typst_net_compiler_compile
typst_net_compiler_compile(h, plat, compiler, src) ==
    IF compiler = NULL THEN [heap |-> h, result |-> FailedResult]
    ELSE IF ~Absent(src) /\ ~Utf8Valid(src.bytes) THEN [heap |-> h, result |-> FailedResult]
    ELSE Let(IF Absent(src) THEN <<>> ELSE src.bytes, LAMBDA source_str :
             Let([world |-> update_source(h[compiler].value.world, source_str)],
                 LAMBDA updated :
                 CompilerInstance_compile([h EXCEPT ![compiler].value = updated],
                                          plat, updated)))

\* a result released without its document
typst_net_result_free_keeps_document(m, result) ==
    IF result.diagnostics # NULL /\ result.diagnostics_len > 0
    THEN free_diagnostics(m, result.diagnostics, result.diagnostics_len)
    ELSE m

\* typst_net_result_free
typst_net_result_free(m, result) ==
    Let(IF result.diagnostics # NULL /\ result.diagnostics_len > 0
        THEN free_diagnostics(m, result.diagnostics, result.diagnostics_len)
        ELSE m,
        LAMBDA m1 :
            IF result.document # NULL THEN Dealloc(m1, result.document, "document", 1)
            ELSE m1)

\* document_page_count
document_page_count(h, document) ==
    IF document = NULL THEN 0 ELSE page_count(h[document].value.backend_doc)

\* a failed rendering answered with an empty Buffer instead of a null one
document_render_page_svg_empty_on_error(h, document, page_index) ==
    IF document = NULL THEN [heap |-> h, buffer |-> Buffer(NULL, 0)]
    ELSE Let(render_page_svg(h[document].value.backend_doc, page_index),
             LAMBDA svg_bytes : vec_to_buffer(h, IF svg_bytes.ok THEN svg_bytes.v ELSE <<>>))

\* document_render_page_svg
document_render_page_svg(h, document, page_index) ==
    IF document = NULL THEN [heap |-> h, buffer |-> Buffer(NULL, 0)]
    ELSE Let(render_page_svg(h[document].value.backend_doc, page_index),
             LAMBDA svg_bytes :
                 IF svg_bytes.ok THEN vec_to_buffer(h, svg_bytes.v)
                 ELSE [heap |-> h, buffer |-> Buffer(NULL, 0)])

\* document_render_all_pages_svg
document_render_all_pages_svg(h, document) ==
    IF document = NULL THEN [heap |-> h, array |-> BufferArray(NULL, 0)]
    ELSE Let(render_all_pages_svg(h[document].value.backend_doc), LAMBDA svg_pages :
             IF svg_pages.ok THEN vecs_to_buffer_array(h, svg_pages.v)
             ELSE [heap |-> h, array |-> BufferArray(NULL, 0)])

\* document_render_pdf
document_render_pdf(h, document, exported) ==
    IF document = NULL THEN [heap |-> h, buffer |-> Buffer(NULL, 0)]
    ELSE Let(render_pdf(h[document].value.backend_doc, exported), LAMBDA pdf_bytes :
             IF pdf_bytes.ok THEN vec_to_buffer(h, pdf_bytes.v)
             ELSE [heap |-> h, buffer |-> Buffer(NULL, 0)])

\* an eviction that, asked to evict everything, drops the documents as well
typst_net_reset_cache_drops_documents(m, max_age_seconds) ==
    IF max_age_seconds = 0
    THEN Mem([a \in Addr |-> IF m.heap[a].kind = "document" THEN FREE ELSE m.heap[a]],
             m.ub)
    ELSE m

\* typst_net_reset_cache: comemo::evict ages and drops the results the engine
\* has memoised, which are the engine's own; it takes no pointer and reaches
\* no allocation of the boundary
typst_net_reset_cache(m, max_age_seconds) == m

-----------------------------------------------------------------------------
(* The caller of the boundary *)

\* what the caller passes to typst_net_compiler_create
CreateInputs ==
    { <<Span(BytesWs), NullOptions>>,
      <<Span(BytesWs), CompilerOptions(TRUE, Span(<<123, 125>>), NullSpan, Span(BytesPk))>>,
      <<Span(BytesWs), CompilerOptions(TRUE, Span(<<123>>), NullSpan, NullSpan)>>,
      <<Span(BytesNo), NullOptions>>,
      <<Span(BytesBad), NullOptions>>,
      <<NullSpan, NullOptions>> }

\* what the caller passes to typst_net_compiler_compile as the source
SourceInputs ==
    { NullSpan, Span(BytesBad), Span(SrcTwo), Span(SrcWarn), Span(SrcBad),
      Span(SrcZero) }

\* page indexes the caller asks for
PageIndexes == {0, 1, 2}

HeldCount ==
    Cardinality(sessions) + Cardinality(results) + Cardinality(buffers)
    + Cardinality(arrays)

\* the document handles of the results the caller holds
Documents == {x.document : x \in results} \ {NULL}

CompilerCreate(root_path, options) ==
    \E r \in { typst_net_compiler_create(heap, platform, root_path, options) } :
        /\ r.ptr # NULL => HeldCount < MaxHeld
        /\ heap' = r.heap
        /\ sessions' = IF r.ptr # NULL THEN sessions \cup {r.ptr} ELSE sessions
        /\ last' = [op |-> "compiler_create", root_path |-> root_path,
                    options |-> options, ret |-> r.ptr]
        /\ UNCHANGED <<platform, world, results, buffers, arrays, ub>>

CompilerFree(compiler) ==
    \E m \in { typst_net_compiler_free(Mem(heap, ub), compiler) } :
        /\ heap' = m.heap
        /\ ub' = m.ub
        /\ sessions' = sessions \ {compiler}
        /\ last' = [op |-> "compiler_free", compiler |-> compiler]
        /\ UNCHANGED <<platform, world, results, buffers, arrays>>

CompilerCompile(compiler, src) ==
    \E r \in { typst_net_compiler_compile(heap, platform, compiler, src) } :
        /\ HeldCount < MaxHeld
        /\ heap' = r.heap
        /\ results' = results \cup {r.result}
        /\ last' = [op |-> "compile", compiler |-> compiler, source |-> src,
                    ret |-> r.result]
        /\ UNCHANGED <<platform, world, sessions, buffers, arrays, ub>>

ResultFree(x) ==
    \E m \in { typst_net_result_free(Mem(heap, ub), x) } :
        /\ heap' = m.heap
        /\ ub' = m.ub
        /\ results' = results \ {x}
        /\ last' = [op |-> "result_free", result |-> x]
        /\ UNCHANGED <<platform, world, sessions, buffers, arrays>>

DocumentPageCount(document) ==
    /\ last' = [op |-> "page_count", document |-> document,
                ret |-> document_page_count(heap, document)]
    /\ UNCHANGED <<platform, world, heap, sessions, results, buffers, arrays, ub>>

DocumentRenderSvgPage(document, page_index) ==
    \E r \in { document_render_page_svg(heap, document, page_index) } :
        /\ r.buffer.data # NULL => HeldCount < MaxHeld
        /\ heap' = r.heap
        /\ buffers' = IF r.buffer.data # NULL THEN buffers \cup {r.buffer} ELSE buffers
        /\ last' = [op |-> "render_svg_page", document |-> document,
                    page_index |-> page_index, ret |-> r.buffer]
        /\ UNCHANGED <<platform, world, sessions, results, arrays, ub>>

DocumentRenderSvgAll(document) ==
    \E r \in { document_render_all_pages_svg(heap, document) } :
        /\ r.array.buffers # NULL => HeldCount < MaxHeld
        /\ heap' = r.heap
        /\ arrays' = IF r.array.buffers # NULL THEN arrays \cup {r.array} ELSE arrays
        /\ last' = [op |-> "render_svg_all", document |-> document, ret |-> r.array]
        /\ UNCHANGED <<platform, world, sessions, results, buffers, ub>>

DocumentRenderPdf(document, exported) ==
    \E r \in { document_render_pdf(heap, document, exported) } :
        /\ r.buffer.data # NULL => HeldCount < MaxHeld
        /\ heap' = r.heap
        /\ buffers' = IF r.buffer.data # NULL THEN buffers \cup {r.buffer} ELSE buffers
        /\ last' = [op |-> "render_pdf", document |-> document, ret |-> r.buffer]
        /\ UNCHANGED <<platform, world, sessions, results, arrays, ub>>

BufferFree(buffer) ==
    \E m \in { free_buffer(Mem(heap, ub), buffer) } :
        /\ heap' = m.heap
        /\ ub' = m.ub
        /\ buffers' = buffers \ {buffer}
        /\ last' = [op |-> "buffer_free", buffer |-> buffer]
        /\ UNCHANGED <<platform, world, sessions, results, arrays>>

BufferArrayFree(array) ==
    \E m \in { free_buffer_array(Mem(heap, ub), array) } :
        /\ heap' = m.heap
        /\ ub' = m.ub
        /\ arrays' = arrays \ {array}
        /\ last' = [op |-> "buffer_array_free", array |-> array]
        /\ UNCHANGED <<platform, world, sessions, results, buffers>>

ResetCache(max_age_seconds) ==
    \E m \in { typst_net_reset_cache(Mem(heap, ub), max_age_seconds) } :
        /\ heap' = m.heap
        /\ ub' = m.ub
        /\ last' = [op |-> "reset_cache", max_age_seconds |-> max_age_seconds]
        /\ UNCHANGED <<platform, world, sessions, results, buffers, arrays>>

Init ==
    /\ platform \in Platforms
    /\ world = NoWorld
    /\ heap = [a \in Addr |-> FREE]
    /\ sessions = {}
    /\ results = {}
    /\ buffers = {}
    /\ arrays = {}
    /\ ub = FALSE
    /\ last = [op |-> "init"]

Next ==
    \/ \E in \in CreateInputs : CompilerCreate(in[1], in[2])
    \/ \E c \in sessions \cup {NULL} : CompilerFree(c)
    \/ \E c \in sessions, src \in SourceInputs : CompilerCompile(c, src)
    \/ CompilerCompile(NULL, Span(SrcTwo))
    \/ \E x \in results : ResultFree(x)
    \/ \E d \in Documents \cup {NULL} : DocumentPageCount(d)
    \/ \E d \in Documents, i \in PageIndexes : DocumentRenderSvgPage(d, i)
    \/ DocumentRenderSvgPage(NULL, 0)
    \/ \E d \in Documents \cup {NULL} : DocumentRenderSvgAll(d)
    \/ \E b \in buffers \cup {Buffer(NULL, 0)} : BufferFree(b)
    \/ \E a \in arrays \cup {BufferArray(NULL, 0)} : BufferArrayFree(a)

\* the boundary on the POSIX build: its sessions are rooted in a directory that
\* is there and its sources ask the host for no file, so no path is resolved
\* where the two builds differ
InitBoundary == Init /\ platform = "posix"

Spec == InitBoundary /\ [][Next]_vars

-----------------------------------------------------------------------------
(* The host driven directly, as the engine and the backend's tests drive it *)

HostRoots == { <<"t", "ws">>, <<"t", "no">>, <<"t", "secret.typ">> }
HostPackagePaths == { None, Some(<<"t", "pk">>), Some(<<"t", "no">>) }
HostInputs == { None, Some(<<123, 125>>), Some(<<123>>) }
HostTexts ==
    { <<>>, SrcHello, SrcTwo, SrcWarn, SrcBad, SrcRead, SrcImport, SrcPkg, SrcZero, SrcBoth,
      SrcStale }

HostNew(root, inputs_json, package_path, include_system_fonts) ==
    \E r \in { BackendWorld_new(platform, root, inputs_json, package_path, <<>>,
                                 include_system_fonts) } :
        /\ world' = IF r.ok THEN r.world ELSE world
        /\ last' = [op |-> "new", root |-> root, inputs_json |-> inputs_json,
                    package_path |-> package_path, ok |-> r.ok]
        /\ UNCHANGED <<platform, heap, sessions, results, buffers, arrays, ub>>

HostUpdateSource(text) ==
    /\ world.live
    /\ world' = update_source(world, text)
    /\ last' = [op |-> "update_source", text |-> text]
    /\ UNCHANGED <<platform, heap, sessions, results, buffers, arrays, ub>>

HostCompile ==
    /\ world.live
    /\ last' = [op |-> "world_compile", ret |-> BackendWorld_compile(platform, world)]
    /\ UNCHANGED <<platform, world, heap, sessions, results, buffers, arrays, ub>>

HostSource(id) ==
    /\ world.live
    /\ last' = [op |-> "source", id |-> id, ret |-> source(platform, world, id)]
    /\ UNCHANGED <<platform, world, heap, sessions, results, buffers, arrays, ub>>

HostFile(id) ==
    /\ world.live
    /\ last' = [op |-> "file", id |-> id, ret |-> file(platform, world, id)]
    /\ UNCHANGED <<platform, world, heap, sessions, results, buffers, arrays, ub>>

\* hour offsets the engine may pass: in and out of the range of an offset, in
\* and out of the range of a signed byte
HourOffsets == {-256, -129, -26, -25, -6, 0, 1, 25, 26, 127, 128, 250, 256, 257}

\* readings of the clock, in hours since a midnight UTC
Clocks == {30, 47}

\* the local offset: not available, or two hours east
LocalOffsets == {None, Some(2)}

TodayInputs ==
    { <<Some(h), now, None>> : h \in HourOffsets, now \in Clocks }
    \cup { <<None, now, local>> : now \in Clocks, local \in LocalOffsets }

HostToday(offset, now_utc, now_local) ==
    /\ world.live
    /\ last' = [op |-> "today", offset |-> offset, now_utc |-> now_utc,
                ret |-> today(offset, now_utc, now_local)]
    /\ UNCHANGED <<platform, world, heap, sessions, results, buffers, arrays, ub>>

NextHost ==
    \/ \E root \in HostRoots, inputs_json \in HostInputs,
          package_path \in HostPackagePaths, include_system_fonts \in BOOLEAN :
            HostNew(root, inputs_json, package_path, include_system_fonts)
    \/ \E text \in HostTexts : HostUpdateSource(text)
    \/ HostCompile
    \/ \E id \in FileIds : HostSource(id)
    \/ \E id \in FileIds : HostFile(id)
    \/ \E in \in TodayInputs : HostToday(in[1], in[2], in[3])

SpecHost == Init /\ [][NextHost]_vars

-----------------------------------------------------------------------------
(* The boundary called with null handles, as test_null_safety calls it, while
   a session, its results and their renderings are live *)

\* a typst_net_compiler_create without a root: null, or not null and of length 0
NoRootInputs ==
    { <<NullSpan, NullOptions>>,
      <<Span(<<>>), NullOptions>>,
      <<NullSpan, CompilerOptions(TRUE, Span(<<123, 125>>), NullSpan, Span(BytesPk))>> }

NextNullHandles ==
    \/ CompilerCreate(Span(BytesWs), NullOptions)
    \/ \E in \in NoRootInputs : CompilerCreate(in[1], in[2])
    \/ \E c \in sessions \cup {NULL} : CompilerFree(c)
    \/ \E c \in sessions, src \in {Span(SrcTwo), Span(SrcBad)} : CompilerCompile(c, src)
    \/ \E src \in {NullSpan, Span(SrcTwo), Span(BytesBad)} : CompilerCompile(NULL, src)
    \/ \E x \in results : ResultFree(x)
    \/ \E d \in Documents \cup {NULL} : DocumentPageCount(d)
    \/ \E i \in PageIndexes : DocumentRenderSvgPage(NULL, i)
    \/ DocumentRenderSvgAll(NULL)
    \/ \E d \in Documents \cup {NULL}, exported \in BOOLEAN : DocumentRenderPdf(d, exported)
    \/ \E b \in buffers : BufferFree(b)

SpecNullHandles == InitBoundary /\ [][NextNullHandles]_vars

-----------------------------------------------------------------------------
(* The releases called with values that own nothing, while a session, its
   results and their renderings are live *)

\* Buffers with a null pointer or of length 0
EmptyBuffers ==
    { Buffer(NULL, 0), Buffer(NULL, 1), Buffer(DANGLING, 0) }
    \cup { Buffer(b.data, 0) : b \in buffers }

\* BufferArrays with a null pointer or of length 0
EmptyArrays ==
    { BufferArray(NULL, 0), BufferArray(NULL, 1), BufferArray(DANGLING, 0) }
    \cup { BufferArray(a.buffers, 0) : a \in arrays }

\* results without a document, with a null array or a count of 0
EmptyResults ==
    { FailedResult, CompileResult(FALSE, NULL, 2, NULL),
      CompileResult(FALSE, DANGLING, 0, NULL) }
    \cup { CompileResult(FALSE, x.diagnostics, 0, NULL) : x \in results }

NextRelease ==
    \/ CompilerCreate(Span(BytesWs), NullOptions)
    \/ \E c \in sessions \cup {NULL} : CompilerFree(c)
    \/ \E c \in sessions, src \in {Span(SrcTwo), Span(SrcBad)} : CompilerCompile(c, src)
    \/ \E x \in results \cup EmptyResults : ResultFree(x)
    \/ \E d \in Documents : DocumentRenderSvgPage(d, 0)
    \/ \E d \in Documents : DocumentRenderSvgAll(d)
    \/ \E b \in buffers \cup EmptyBuffers : BufferFree(b)
    \/ \E a \in arrays \cup EmptyArrays : BufferArrayFree(a)

SpecRelease == InitBoundary /\ [][NextRelease]_vars

-----------------------------------------------------------------------------
(* Sessions compiled again and again, as test_multiple_compilations does *)

NextCompile ==
    \/ \E options \in { NullOptions,
                          CompilerOptions(TRUE, Span(<<123, 125>>), NullSpan,
                                          Span(BytesPk)) } :
            CompilerCreate(Span(BytesWs), options)
    \/ \E c \in sessions : CompilerFree(c)
    \/ \E c \in sessions, src \in SourceInputs \cup {Span(<<>>)} : CompilerCompile(c, src)
    \/ \E x \in results : ResultFree(x)
    \/ \E d \in Documents : DocumentPageCount(d)

SpecCompile == InitBoundary /\ [][NextCompile]_vars

-----------------------------------------------------------------------------
(* The cache evicted between the other calls, as a long-running caller does *)

\* evict everything, evict what two evictions have not used, the age of
\* test_cache_reset, and a large age
MaxAges == {0, 1, 30, 2147483647}

NextCache ==
    \/ \E max_age_seconds \in MaxAges : ResetCache(max_age_seconds)
    \/ CompilerCreate(Span(BytesWs), NullOptions)
    \/ \E c \in sessions : CompilerFree(c)
    \/ \E c \in sessions, src \in {Span(SrcTwo), Span(SrcBad)} : CompilerCompile(c, src)
    \/ \E x \in results : ResultFree(x)
    \/ \E d \in Documents : DocumentPageCount(d)
    \/ \E d \in Documents, i \in {0, 2} : DocumentRenderSvgPage(d, i)
    \/ \E d \in Documents : DocumentRenderSvgAll(d)
    \/ \E b \in buffers : BufferFree(b)
    \/ \E a \in arrays : BufferArrayFree(a)

SpecCache == InitBoundary /\ [][NextCache]_vars

-----------------------------------------------------------------------------
(* Sessions created and released, over the roots and options a caller may pass *)

\* a span of each kind for a path: null, empty, a directory, a path that is not
\* there, a file, bytes that are no UTF-8
PathSpans == { NullSpan, Span(<<>>), Span(BytesPk), Span(BytesNo), Span(BytesFile),
               Span(BytesBad) }

\* for the inputs: null, empty, "{}", "[]", "{", bytes that are no UTF-8
InputsSpans == { NullSpan, Span(<<>>), Span(<<123, 125>>), Span(<<91, 93>>), Span(<<123>>),
                 Span(BytesBad) }

\* for the font paths: null, empty, "[]", ["/t/pk"], "{}", bytes that are no UTF-8
FontPathsSpans ==
    { NullSpan, Span(<<>>), Span(<<91, 93>>), Span(<<91, 34>> \o BytesPk \o <<34, 93>>),
      Span(<<123, 125>>), Span(BytesBad) }

\* options with every field absent, good or bad, and each other kind of span
\* in one field at a time
OptionsInputs ==
    { NullOptions, CompilerOptions(FALSE, NullSpan, NullSpan, NullSpan) }
    \cup { CompilerOptions(TRUE, i, f, p) :
             i \in {NullSpan, Span(<<123, 125>>), Span(<<123>>)},
             f \in {NullSpan, Span(<<91, 34>> \o BytesPk \o <<34, 93>>), Span(<<123, 125>>)},
             p \in {NullSpan, Span(BytesPk), Span(BytesNo)} }
    \cup { CompilerOptions(TRUE, i, NullSpan, NullSpan) : i \in InputsSpans }
    \cup { CompilerOptions(TRUE, NullSpan, f, NullSpan) : f \in FontPathsSpans }
    \cup { CompilerOptions(TRUE, NullSpan, NullSpan, p) : p \in PathSpans }

\* the workspace with every options; each other root without options and with
\* options that are good
RootInputs ==
    { <<Span(BytesWs), o>> : o \in OptionsInputs }
    \cup { <<r, o>> : r \in PathSpans,
                      o \in { NullOptions,
                              CompilerOptions(TRUE, Span(<<123, 125>>), NullSpan,
                                              Span(BytesPk)) } }

NextCreate ==
    \/ \E in \in RootInputs : CompilerCreate(in[1], in[2])
    \/ \E c \in sessions : CompilerFree(c)

SpecCreate == InitBoundary /\ [][NextCreate]_vars

-----------------------------------------------------------------------------
(* The path sandbox *)

\* std::fs::canonicalize of a path that is there: ".." and links resolved
canonicalize(p) == Real(platform, p)

\* the last operation asked resolve_path about an identity
AskedSandbox == last.op \in {"source", "file"} /\ last.ret.resolved.called

\* the candidate path lies under base once both are canonical
Contained(candidate, base) == starts_with(canonicalize(candidate), canonicalize(base))

\* C1: for an identity without a package, resolve_path answers AccessDenied
\* whenever the candidate path (the root joined with the virtual path, ".."
\* and links resolved) is not a descendant of the workspace root, and never
\* resolves to a path outside the workspace root.
C1_WorkspaceSandbox ==
    (AskedSandbox /\ last.id.package = NoPackage) =>
        /\ (/\ exists(platform, join(world.root, last.id.vpath))
            /\ ~Contained(join(world.root, last.id.vpath), world.root))
           => last.ret.resolved.r = AccessDenied
        /\ last.ret.resolved.r.ok => Contained(last.ret.resolved.r.v, world.root)

\* C2: for an identity of a package whose namespace, name or virtual path
\* holds ".." so that the joined path lies outside the package root,
\* resolve_path answers AccessDenied; a package identity never resolves to a
\* file outside the package root.
C2_PackageSandbox ==
    (AskedSandbox /\ last.id.package # NoPackage /\ world.package_path.some) =>
        /\ (/\ exists(platform, join(world.package_path.v,
                                     last.id.package \o last.id.vpath))
            /\ ~Contained(join(world.package_path.v, last.id.package \o last.id.vpath),
                          world.package_path.v))
           => last.ret.resolved.r = AccessDenied
        /\ last.ret.resolved.r.ok
           => Contained(last.ret.resolved.r.v, world.package_path.v)

\* C3: a request for the main identity, for its source or for its bytes, is
\* answered from the main text in memory, without resolve_path and without
\* reading a file; every other identity goes through resolve_path.
C3_MainNeverResolved ==
    last.op \in {"source", "file"} =>
        IF last.id = world.main_id
        THEN /\ ~last.ret.resolved.called
             /\ ~last.ret.read.some
             /\ last.ret.result.ok
        ELSE last.ret.resolved.called

-----------------------------------------------------------------------------
(* Compile results *)

\* the compile returned before it reached the session's engine
EarlyReturn(compiler, src) ==
    compiler = NULL \/ (~Absent(src) /\ ~Utf8Valid(src.bytes))

\* C4: in every CompileResult the compile operation returns, the early
\* returns for a null session and for a source that is not UTF-8 included,
\* the document pointer is null exactly when the success flag is false.
C4_DocumentNullIffFailed ==
    /\ last.op = "compile" => (last.ret.document = NULL <=> ~last.ret.success)
    /\ \A x \in results : x.document = NULL <=> ~x.success

\* a successful result with its document is held, and a compile on a null
\* session has just returned its failure
C4_Witness ==
    /\ last.op = "compile" /\ last.compiler = NULL /\ ~last.ret.success
    /\ \E x \in results : x.success /\ Live(heap, x.document)

\* C5, as stated: every compile that returns success = false returns at least
\* one diagnostic.
C5_FailedHasDiagnostic ==
    (last.op = "compile" /\ ~last.ret.success) => last.ret.diagnostics_len > 0

\* C5, as the code has it: a compile that reaches the engine and fails returns
\* at least one diagnostic; a compile that returns early, for a null session
\* or a source that is not UTF-8, fails with no diagnostic at all.
C5_EngineFailureHasDiagnostic ==
    last.op = "compile" =>
        IF EarlyReturn(last.compiler, last.source)
        THEN last.ret = FailedResult
        ELSE ~last.ret.success =>
                /\ last.ret.diagnostics_len > 0
                /\ Live(heap, last.ret.diagnostics)
                /\ Len(heap[last.ret.diagnostics].value) = last.ret.diagnostics_len

\* the engine has refused a source and the result carries its error
C5_Witness ==
    /\ last.op = "compile" /\ ~EarlyReturn(last.compiler, last.source)
    /\ ~last.ret.success
    /\ last.ret.diagnostics_len > 0
    /\ \E i \in 1..last.ret.diagnostics_len :
            ItemsAt(Mem(heap, ub), last.ret.diagnostics, "diagnostics")[i].severity
                = SeverityError

-----------------------------------------------------------------------------
(* Ownership *)

\* the addresses among a set of pointers
Allocated(ptrs) == ptrs \cap Addr

\* the allocations a CompileResult owns: its document, its array of
\* diagnostics and the message of each
ResultAllocations(x) ==
    Allocated({x.document, x.diagnostics}
              \cup {d.message : d \in
                        {ItemsAt(Mem(heap, ub), x.diagnostics, "diagnostics")[i] :
                            i \in 1..Len(ItemsAt(Mem(heap, ub), x.diagnostics,
                                                 "diagnostics"))}})

\* the allocations a BufferArray owns: the array and the bytes of each Buffer
ArrayAllocations(a) ==
    Allocated({a.buffers}
              \cup {b.data : b \in
                        {ItemsAt(Mem(heap, ub), a.buffers, "buffers")[i] :
                            i \in 1..Len(ItemsAt(Mem(heap, ub), a.buffers, "buffers"))}})

\* everything owned by a handle the caller holds
HeldAllocations ==
    Allocated(sessions \cup {b.data : b \in buffers})
    \cup UNION {ResultAllocations(x) : x \in results}
    \cup UNION {ArrayAllocations(a) : a \in arrays}

NothingHeld == sessions = {} /\ results = {} /\ buffers = {} /\ arrays = {}

\* C6: when the caller releases each Buffer, BufferArray, CompileResult and
\* session it received exactly once, no allocation is released twice or with
\* a shape it was not made with, the live allocations are exactly those of
\* the handles still held, and after the last release none is live.
C6_OwnershipRoundTrip ==
    /\ ~ub
    /\ {a \in Addr : Live(heap, a)} = HeldAllocations
    /\ NothingHeld => \A a \in Addr : ~Live(heap, a)

\* a result with diagnostics and a document was the last handle released
C6_Witness ==
    /\ last.op = "result_free"
    /\ last.result.diagnostics # NULL /\ last.result.document # NULL
    /\ NothingHeld
    /\ \A a \in Addr : ~Live(heap, a)

\* C7, as stated: releasing a result's diagnostics leaves its document live
\* and usable; the document is released only by a release of its own.
C7_DocumentOutlivesResultFree ==
    (last.op = "result_free" /\ last.result.document # NULL) =>
        Live(heap, last.result.document)

\* C7, as the code has it: free_diagnostics alone would leave the document of
\* a result live and unchanged, but the boundary has no release of the
\* diagnostics alone and none of the document alone: typst_net_result_free
\* releases the diagnostics, their messages and the document together; none
\* of them is live after it, and until it all of them are.
C7_ResultFreeReleasesBoth ==
    /\ last.op = "result_free" =>
            /\ ~Live(heap, last.result.document)
            /\ ~Live(heap, last.result.diagnostics)
            /\ last.result \notin results
    /\ \A x \in results :
            /\ x.document # NULL => Live(heap, x.document)
            /\ x.diagnostics # NULL => Live(heap, x.diagnostics)
            /\ x.document # NULL =>
                    Let(free_diagnostics(Mem(heap, ub), x.diagnostics, x.diagnostics_len),
                        LAMBDA m : /\ ~m.ub
                                   /\ Live(m.heap, x.document)
                                   /\ m.heap[x.document] = heap[x.document])

\* a result with diagnostics and a document has just been released
C7_Witness ==
    /\ last.op = "result_free"
    /\ last.result.success
    /\ last.result.diagnostics # NULL /\ last.result.diagnostics_len > 0
    /\ last.result.document # NULL

\* C8: releasing a session neither releases nor alters a document an earlier
\* compile on it returned: the document stays live with the pages it had, so
\* page_count and the renderings answer as before.
C8_DocumentsOutliveSession ==
    [][last'.op = "compiler_free" =>
            /\ results' = results
            /\ \A d \in Documents :
                    /\ Live(heap', d)
                    /\ heap'[d] = heap[d]]_vars

\* no session is left, and a document one of them compiled still counts its
\* two pages
C8_Witness ==
    /\ last.op = "page_count" /\ last.document # NULL
    /\ sessions = {}
    /\ last.ret = 2

-----------------------------------------------------------------------------
(* Rendering *)

\* the pages of a live document
PagesOf(h, document) == h[document].value.backend_doc.inner.pages

\* C9: render_page(i) fails exactly when i >= page_count(); a failure returns
\* the Buffer with null data and len 0 and allocates nothing; for
\* i < page_count() the Buffer owns the rendered bytes of page i.
C9_RenderPageBounds ==
    [][(last'.op = "render_svg_page" /\ last'.document # NULL) =>
            IF last'.page_index >= document_page_count(heap, last'.document)
            THEN /\ last'.ret = Buffer(NULL, 0)
                 /\ heap' = heap
                 /\ buffers' = buffers
            ELSE /\ ~Live(heap, last'.ret.data)
                 /\ Live(heap', last'.ret.data)
                 /\ heap'[last'.ret.data].value
                        = svg(PagesOf(heap, last'.document)[last'.page_index + 1])
                 /\ last'.ret.len = Len(heap'[last'.ret.data].value)
                 /\ last'.ret \in buffers']_vars

\* the page index just past the last page of a document with pages was asked
\* for, and a null Buffer came back
C9_Witness ==
    /\ last.op = "render_svg_page" /\ last.document # NULL
    /\ document_page_count(heap, last.document) > 0
    /\ last.page_index = document_page_count(heap, last.document)
    /\ last.ret = Buffer(NULL, 0)

\* C10: render_all_pages fails with the null BufferArray when the document has
\* no pages; otherwise the BufferArray has page_count() Buffers and the k-th
\* owns the rendering of page k.
C10_RenderAllPages ==
    (last.op = "render_svg_all" /\ last.document # NULL) =>
        IF document_page_count(heap, last.document) = 0
        THEN last.ret = BufferArray(NULL, 0)
        ELSE /\ last.ret.len = document_page_count(heap, last.document)
             /\ Live(heap, last.ret.buffers)
             /\ Len(heap[last.ret.buffers].value) = last.ret.len
             /\ \A k \in 1..last.ret.len :
                    /\ Live(heap, heap[last.ret.buffers].value[k].data)
                    /\ heap[heap[last.ret.buffers].value[k].data].value
                            = svg(PagesOf(heap, last.document)[k])

\* both pages of a document with two pages came back
C10_Witness ==
    /\ last.op = "render_svg_all" /\ last.document # NULL
    /\ last.ret.len = 2
    /\ document_page_count(heap, last.document) = 2

-----------------------------------------------------------------------------
(* Null handles *)

\* the heap, the undefined-behaviour flag and what the caller holds, but for
\* the results
HeapAndHandles == <<heap, ub, sessions, buffers, arrays>>

\* C11: a call with a null handle returns its null value, releases and
\* allocates nothing and runs into no undefined behaviour: create with a null
\* or zero-length root returns null; compile on a null session returns
\* success = false, null diagnostics, count 0 and a null document; page_count
\* of a null document is 0; each rendering of a null document is the null
\* pointer with length 0; free of a null session does nothing.
C11_NullHandles ==
    [][/\ (last'.op = "compiler_create" /\ Absent(last'.root_path)) =>
            /\ last'.ret = NULL
            /\ UNCHANGED <<HeapAndHandles, results>>
       /\ (last'.op = "compile" /\ last'.compiler = NULL) =>
            /\ last'.ret = CompileResult(FALSE, NULL, 0, NULL)
            /\ UNCHANGED HeapAndHandles
       /\ (last'.op = "page_count" /\ last'.document = NULL) =>
            /\ last'.ret = 0
            /\ UNCHANGED <<HeapAndHandles, results>>
       /\ (last'.op \in {"render_svg_page", "render_pdf"} /\ last'.document = NULL) =>
            /\ last'.ret = Buffer(NULL, 0)
            /\ UNCHANGED <<HeapAndHandles, results>>
       /\ (last'.op = "render_svg_all" /\ last'.document = NULL) =>
            /\ last'.ret = BufferArray(NULL, 0)
            /\ UNCHANGED <<HeapAndHandles, results>>
       /\ (last'.op = "compiler_free" /\ last'.compiler = NULL) =>
            UNCHANGED <<HeapAndHandles, results>>]_vars

\* a PDF of a null document was asked for while a session and a document were
\* live, and the null Buffer came back
C11_Witness ==
    /\ last.op = "render_pdf" /\ last.document = NULL
    /\ last.ret = Buffer(NULL, 0)
    /\ sessions # {}
    /\ Documents # {}

-----------------------------------------------------------------------------
(* Sources that are not UTF-8 *)

\* the main text of a live session
MainText(h, compiler) == h[compiler].value.world.main_source.text

\* C12: a compile on a session with a source that is not null, not empty and
\* not UTF-8 returns success = false with a null document and nothing of the
\* engine (no diagnostics, no allocation), and the session, its main text
\* included, is as it was before the call.
C12_InvalidUtf8Compile ==
    [][(/\ last'.op = "compile" /\ last'.compiler # NULL
        /\ ~Absent(last'.source) /\ ~Utf8Valid(last'.source.bytes)) =>
            /\ ~last'.ret.success
            /\ last'.ret.document = NULL
            /\ last'.ret.diagnostics = NULL /\ last'.ret.diagnostics_len = 0
            /\ MainText(heap', last'.compiler) = MainText(heap, last'.compiler)
            /\ UNCHANGED <<heap, ub, sessions>>]_vars

\* a session that holds a text of two pages has just refused a source that is
\* not UTF-8
C12_Witness ==
    /\ last.op = "compile" /\ last.compiler \in sessions
    /\ last.source = Span(BytesBad)
    /\ ~last.ret.success
    /\ MainText(heap, last.compiler) = SrcTwo

-----------------------------------------------------------------------------
(* Creation *)

\* the path a span spells
PathOf(span) == PathBufFrom(span.bytes, <<>>)

\* a span that is there and spells a directory
SpellsDirectory(span) ==
    /\ ~Absent(span) /\ Utf8Valid(span.bytes)
    /\ exists(platform, PathOf(span)) /\ is_dir(platform, PathOf(span))

\* the options of the last create, the defaults when it got a null pointer
GivenOptions ==
    IF last.options.null THEN CompilerOptions(FALSE, NullSpan, NullSpan, NullSpan)
    ELSE last.options

WellFormedInputs(span) ==
    Absent(span) \/ (Utf8Valid(span.bytes) /\ JsonParse(span.bytes).ok)

WellFormedFontPaths(span) ==
    Absent(span) \/ (Utf8Valid(span.bytes) /\ JsonStrings(span.bytes).ok)

\* C13: create returns null, and leaves no session and no allocation behind,
\* whenever the root does not exist or is no directory, or a package path is
\* given and does not exist or is no directory; the handle is not null only
\* when the root, the package path, the inputs and the font paths all pass.
C13_CreateValidatesPaths ==
    /\ {a \in Addr : Live(heap, a)} = sessions
    /\ last.op = "compiler_create" =>
        /\ ~SpellsDirectory(last.root_path) => last.ret = NULL
        /\ (~Absent(GivenOptions.package_path)
            /\ ~SpellsDirectory(GivenOptions.package_path)) => last.ret = NULL
        /\ last.ret # NULL =>
            /\ last.ret \in sessions
            /\ SpellsDirectory(last.root_path)
            /\ Absent(GivenOptions.package_path)
               \/ SpellsDirectory(GivenOptions.package_path)
            /\ WellFormedInputs(GivenOptions.inputs_json)
            /\ WellFormedFontPaths(GivenOptions.custom_font_paths)

\* a create with a good root and a package path that is a file has failed
\* while a session made earlier is live
C13_Witness ==
    /\ last.op = "compiler_create"
    /\ last.root_path = Span(BytesWs)
    /\ ~last.options.null /\ last.options.package_path = Span(BytesFile)
    /\ last.ret = NULL
    /\ sessions # {}

\* C14: create returns null whenever the inputs are given and are not UTF-8
\* or not JSON, the font paths are given and are not UTF-8 or not a JSON list
\* of strings, or the package path is given and is not UTF-8; a null or empty
\* span is an absent option and makes no create fail.
C14_CreateValidatesOptions ==
    (last.op = "compiler_create" /\ ~last.options.null) =>
        /\ ~WellFormedInputs(last.options.inputs_json) => last.ret = NULL
        /\ ~WellFormedFontPaths(last.options.custom_font_paths) => last.ret = NULL
        /\ (~Absent(last.options.package_path)
            /\ ~Utf8Valid(last.options.package_path.bytes)) => last.ret = NULL
        /\ (/\ SpellsDirectory(last.root_path)
            /\ \A span \in {last.options.inputs_json, last.options.custom_font_paths,
                            last.options.package_path} : Absent(span))
           => last.ret # NULL

\* a create whose font paths are JSON but no list of strings, and whose other
\* options are absent, has failed while a session is live
C14_Witness ==
    /\ last.op = "compiler_create"
    /\ last.root_path = Span(BytesWs)
    /\ ~last.options.null /\ last.options.custom_font_paths = Span(<<123, 125>>)
    /\ Absent(last.options.inputs_json) /\ Absent(last.options.package_path)
    /\ last.ret = NULL
    /\ sessions # {}

\* C15: a create with a null options pointer builds the session with the
\* documented defaults: the system fonts are included, there are no inputs,
\* no custom font paths and no package path.
C15_NullOptionsDefaults ==
    (last.op = "compiler_create" /\ last.options.null /\ last.ret # NULL) =>
        /\ heap[last.ret].value.world.fonts = search_with(<<>>, TRUE)
        /\ heap[last.ret].value.world.library = EmptyDict
        /\ heap[last.ret].value.world.package_path = None

-----------------------------------------------------------------------------
(* The main text *)

-----------------------------------------------------------------------------
(* Compiling again *)

\* the diagnostics of a result in heap h
DiagnosticsIn(h, x) == ItemsAt(Mem(h, FALSE), x.diagnostics, "diagnostics")

\* the allocations of a result in heap h: document, array and messages
AllocationsIn(h, x) ==
    Allocated({x.document, x.diagnostics}
              \cup {DiagnosticsIn(h, x)[i].message : i \in 1..Len(DiagnosticsIn(h, x))})

\* what a diagnostic says: its fields, and the bytes its message points to
Said(h, d) ==
    [severity |-> d.severity, location |-> d.location, message_len |-> d.message_len,
     message |-> IF Live(h, d.message) THEN h[d.message].value ELSE <<>>]

\* two results of the same heap with the same flag, page count and diagnostics
SameOutcome(h, x, y) ==
    /\ x.success = y.success
    /\ (x.document = NULL) = (y.document = NULL)
    /\ document_page_count(h, x.document) = document_page_count(h, y.document)
    /\ x.diagnostics_len = y.diagnostics_len
    /\ Len(DiagnosticsIn(h, x)) = Len(DiagnosticsIn(h, y))
    /\ \A i \in 1..Len(DiagnosticsIn(h, x)) :
            Said(h, DiagnosticsIn(h, x)[i]) = Said(h, DiagnosticsIn(h, y)[i])

\* C17: when a compile on a session has returned, compiling the same source
\* on that session again gives the same success flag, page count and
\* diagnostics, in a document and an array of diagnostics of its own: none of
\* its allocations is one of the first result, the first result is left as it
\* was, and the two results are released one after the other, each release
\* leaving the other result whole.
C17_RecompileSame ==
    (/\ last.op = "compile" /\ ~EarlyReturn(last.compiler, last.source)
     /\ last.compiler \in sessions /\ last.ret \in results) =>
        Let(typst_net_compiler_compile(heap, platform, last.compiler, last.source),
            LAMBDA again :
            /\ SameOutcome(again.heap, last.ret, again.result)
            /\ AllocationsIn(again.heap, again.result) \cap AllocationsIn(heap, last.ret)
                    = {}
            /\ \A a \in AllocationsIn(again.heap, again.result) :
                    ~Live(heap, a) /\ Live(again.heap, a)
            /\ \A a \in AllocationsIn(heap, last.ret) : again.heap[a] = heap[a]
            /\ Let(typst_net_result_free(Mem(again.heap, ub), last.ret), LAMBDA m :
                    /\ ~m.ub
                    /\ \A a \in AllocationsIn(again.heap, again.result) :
                            m.heap[a] = again.heap[a]
                    /\ Let(typst_net_result_free(m, again.result), LAMBDA m2 :
                            /\ ~m2.ub
                            /\ \A a \in Addr :
                                Live(m2.heap, a)
                                    <=> (Live(heap, a)
                                         /\ a \notin AllocationsIn(heap, last.ret)))))

\* a compile has returned a document and a diagnostic for a source with a
\* warning, and the session it ran on is live
C17_Witness ==
    /\ last.op = "compile" /\ last.source = Span(SrcWarn)
    /\ last.compiler \in sessions /\ last.ret \in results
    /\ last.ret.success
    /\ last.ret.document # NULL /\ last.ret.diagnostics_len = 1

-----------------------------------------------------------------------------
(* The diagnostics of a compile *)

\* the errors the engine reports for the main text of a host, none when it
\* succeeds
EngineErrors(plat, w) ==
    Let(typst_compile(plat, w).output, LAMBDA output :
        IF output.ok THEN <<>> ELSE output.errors)

\* C18: the diagnostics of a compile are the engine's errors in the engine's
\* order and after them the engine's warnings in the engine's order; a compile
\* that succeeds has the warnings only, and none of them is an error.  The
\* boundary's diagnostics keep that order: severity Error for each error,
\* then severity Warning for each warning.
C18_ErrorsThenWarnings ==
    last.op = "world_compile" =>
        Let(EngineErrors(platform, world), LAMBDA errors :
        Let(typst_compile(platform, world).warnings, LAMBDA warnings :
        Let(map_convert_backend_diagnostic(heap, last.ret.diagnostics).items,
            LAMBDA items :
            /\ last.ret.success = (errors = <<>>)
            /\ Len(last.ret.diagnostics) = Len(errors) + Len(warnings)
            /\ \A i \in 1..Len(errors) :
                    /\ last.ret.diagnostics[i].severity = "Error"
                    /\ last.ret.diagnostics[i]
                            = convert_diagnostic(errors[i], platform, world)
            /\ \A j \in 1..Len(warnings) :
                    /\ last.ret.diagnostics[Len(errors) + j].severity = "Warning"
                    /\ last.ret.diagnostics[Len(errors) + j]
                            = convert_diagnostic(warnings[j], platform, world)
            /\ Len(items) = Len(last.ret.diagnostics)
            /\ \A i \in 1..Len(items) :
                    items[i].severity
                        = IF i <= Len(errors) THEN SeverityError ELSE SeverityWarning)))

\* a compile has failed with two errors and, after them, two warnings
C18_Witness ==
    /\ last.op = "world_compile" /\ ~last.ret.success
    /\ Len(last.ret.diagnostics) = 4
    /\ last.ret.diagnostics[1].message = "unclosed delimiter"
    /\ last.ret.diagnostics[2].message = "file not found"
    /\ last.ret.diagnostics[3].message = "deprecated"
    /\ last.ret.diagnostics[4].severity = "Warning"

\* what the engine reported in a compile, errors first
EngineDiagnostics(plat, w) ==
    EngineErrors(plat, w) \o typst_compile(plat, w).warnings

\* the source of a span, read through the host, when the span has one
SpanSource(span, plat, w) ==
    IF span.id.some THEN source(plat, w, span.id.v).result ELSE [ok |-> FALSE]

\* a span whose start has a line: it names a source, the host resolves that
\* source, the span has a byte range in it and the line lookup succeeds
HasLine(span, plat, w) ==
    Let(SpanSource(span, plat, w), LAMBDA src :
        /\ src.ok
        /\ source_range(src.v, span).some
        /\ byte_to_line(src.v.text, span.range.v[1]).some)

\* the location the boundary owes for a span that has a line
OneBased(span, plat, w) ==
    Let(SpanSource(span, plat, w).v.text, LAMBDA text :
        SourceLocation(byte_to_line(text, span.range.v[1]).v + 1,
                       byte_to_column(text, span.range.v[1]).v + 1,
                       span.range.v[2] - span.range.v[1]))

RECURSIVE HintLines(_)
HintLines(hints) ==
    IF hints = <<>> THEN ""
    ELSE "\n" \o "Hint: " \o Head(hints) \o HintLines(Tail(hints))

\* C20: the message of a translated diagnostic is the engine's primary message
\* followed, for each hint in the engine's order, by a newline, "Hint: " and
\* the hint; without hints it is the primary message alone.  The boundary hands
\* out that text and its length.
C20_MessageWithHints ==
    last.op = "world_compile" =>
        Let(EngineDiagnostics(platform, world), LAMBDA engine :
        Let(map_convert_backend_diagnostic(heap, last.ret.diagnostics), LAMBDA made :
            /\ Len(last.ret.diagnostics) = Len(engine)
            /\ Len(made.items) = Len(engine)
            /\ \A i \in 1..Len(engine) :
                    /\ last.ret.diagnostics[i].message
                            = engine[i].message \o HintLines(engine[i].hints)
                    /\ engine[i].hints = <<>>
                            => last.ret.diagnostics[i].message = engine[i].message
                    /\ Said(made.heap, made.items[i]).message
                            = last.ret.diagnostics[i].message
                    /\ made.items[i].message_len
                            = Len(engine[i].message \o HintLines(engine[i].hints))))

\* a compile has reported a diagnostic without hints and one with two hints
C20_Witness ==
    /\ last.op = "world_compile"
    /\ \E i \in 1..Len(last.ret.diagnostics) :
            /\ EngineDiagnostics(platform, world)[i].hints = <<>>
            /\ last.ret.diagnostics[i].message = "unclosed delimiter"
    /\ \E i \in 1..Len(last.ret.diagnostics) :
            /\ Len(EngineDiagnostics(platform, world)[i].hints) = 2
            /\ last.ret.diagnostics[i].message
                    = "unknown font family\nHint: check the name\nHint: or install it"

-----------------------------------------------------------------------------
(* The array of diagnostics of a result *)

\* C21: in every CompileResult the diagnostics pointer is null exactly when
\* diagnostics_len is 0.  A compile without diagnostics returns the null
\* pointer and 0 and allocates no array; a compile with diagnostics returns a
\* live array of exactly diagnostics_len items, as many as the backend
\* reported for the source.
C21_DiagnosticsNullIffEmpty ==
    /\ \A x \in results :
            /\ x.diagnostics = NULL <=> x.diagnostics_len = 0
            /\ x.diagnostics # NULL =>
                    /\ Live(heap, x.diagnostics)
                    /\ heap[x.diagnostics].kind = "diagnostics"
                    /\ Len(heap[x.diagnostics].value) = x.diagnostics_len
    /\ {a \in Arena("diagnostics") : Live(heap, a)}
            = {x.diagnostics : x \in results} \ {NULL}
    /\ (last.op = "compile" /\ ~EarlyReturn(last.compiler, last.source)) =>
            last.ret.diagnostics_len
                = Len(BackendWorld_compile(platform,
                                           heap[last.compiler].value.world).diagnostics)

\* a compile of a session has succeeded without diagnostics: the result has
\* the null pointer and 0, and no array of diagnostics is live
C21_Witness ==
    /\ last.op = "compile" /\ ~EarlyReturn(last.compiler, last.source)
    /\ last.ret.success /\ last.ret \in results
    /\ last.ret.diagnostics = NULL /\ last.ret.diagnostics_len = 0
    /\ BackendWorld_compile(platform, heap[last.compiler].value.world).diagnostics = <<>>
    /\ \A a \in Arena("diagnostics") : ~Live(heap, a)

-----------------------------------------------------------------------------
(* Releases of values that own nothing *)

\* the step is a release of a null session, of a Buffer or BufferArray with a
\* null pointer or of length 0, or of a result without a document whose array
\* is null or of length 0
ReleasedNothing(l) ==
    \/ l.op = "compiler_free" /\ l.compiler = NULL
    \/ l.op = "buffer_free" /\ (l.buffer.data = NULL \/ l.buffer.len = 0)
    \/ l.op = "buffer_array_free" /\ (l.array.buffers = NULL \/ l.array.len = 0)
    \/ /\ l.op = "result_free"
       /\ l.result.diagnostics = NULL \/ l.result.diagnostics_len = 0
       /\ l.result.document = NULL

\* C22: a release of a null or zero-length value (buffer_free, buffer_array_free,
\* result_free of a result without document and diagnostics, session free of
\* null) releases nothing: every allocation is as it was, none is reported as
\* released twice, and the session, Buffers and BufferArrays the caller holds
\* are the same.
C22_ReleaseNoOp ==
    [][ReleasedNothing(last') =>
            /\ heap' = heap
            /\ ub' = ub
            /\ sessions' = sessions /\ buffers' = buffers /\ arrays' = arrays]_vars

\* a result that owns nothing has been released while a session and a failed
\* result with its diagnostics and their messages were live
C22_Witness ==
    /\ last.op = "result_free" /\ ReleasedNothing(last)
    /\ sessions # {}
    /\ \E x \in results : x.diagnostics # NULL /\ x.document = NULL
    /\ \E a \in Arena("string") : Live(heap, a)
    /\ ~ub

-----------------------------------------------------------------------------
(* The eviction of the cache *)

\* what the caller holds
Handles == <<sessions, results, buffers, arrays>>

\* what page_count, the renderings and a compile of each source return in
\* heap h, for the documents and sessions the caller holds
LaterCalls(h) ==
    [page_count |-> [d \in Documents |-> document_page_count(h, d)],
     render_svg_page |->
        [d \in Documents |->
            [i \in PageIndexes |-> document_render_page_svg(h, d, i)]],
     render_svg_all |-> [d \in Documents |-> document_render_all_pages_svg(h, d)],
     compile |->
        [c \in sessions |->
            [src \in {Span(SrcTwo), Span(SrcBad)} |->
                typst_net_compiler_compile(h, platform, c, src)]]]

\* C23: the eviction can be called in every state, without a session as
\* well, with every age, 0 included; it leaves every session, result,
\* document, Buffer and BufferArray and every allocation as it was, so that
\* page_count, the renderings and the compiles return after it what they
\* would have returned without it.
C23_ResetCache ==
    /\ [](\A max_age_seconds \in MaxAges : ENABLED ResetCache(max_age_seconds))
    /\ [][last'.op = "reset_cache" =>
            /\ heap' = heap
            /\ ub' = ub
            /\ Handles' = Handles
            /\ LaterCalls(heap') = LaterCalls(heap)]_vars

\* everything has been evicted while a session and a document were live
C23_Witness ==
    /\ last.op = "reset_cache" /\ last.max_age_seconds = 0
    /\ sessions # {}
    /\ Documents # {}
    /\ ~ub

-----------------------------------------------------------------------------
(* Paths under a configured root *)

\* the root an identity is looked up under: the workspace root, or the
\* package-repository root joined with namespace, name and version
ConfiguredRoot(w, id) ==
    IF id.package = NoPackage THEN w.root ELSE join(w.package_path.v, id.package)

\* the path an identity stands for: its root joined with its virtual path
JoinedPath(w, id) == join(ConfiguredRoot(w, id), id.vpath)

\* p is base or below it, once the ".." of both are taken out
Under(p, base) == starts_with(Lexical(<<>>, p), Lexical(<<>>, base))

\* C24: for a path p under the configured root (the workspace root, or the
\* package-repository root joined with namespace, name and version),
\* resolve_path on the identity built from p succeeds exactly when p exists
\* and then returns the joined path; when p does not exist it fails with
\* NotFound.
C24_ResolveIffExists ==
    (/\ AskedSandbox
     /\ last.id.package # NoPackage => world.package_path.some) =>
        Let(JoinedPath(world, last.id), LAMBDA p :
            Under(p, ConfiguredRoot(world, last.id)) =>
                /\ last.ret.resolved.r.ok <=> exists(platform, p)
                /\ last.ret.resolved.r.ok => last.ret.resolved.r.v = p
                /\ ~exists(platform, p) => last.ret.resolved.r = NotFound(p))

\* the host has been asked for a file of the workspace that is there and has
\* resolved it to the root joined with the virtual path
C24_Witness ==
    /\ AskedSandbox /\ last.id = FileId(NoPackage, <<"a.typ">>)
    /\ Under(JoinedPath(world, last.id), world.root)
    /\ exists(platform, JoinedPath(world, last.id))
    /\ last.ret.resolved.r = Ok(<<"t", "ws", "a.typ">>)

-----------------------------------------------------------------------------
(* Identities of packages *)

\* the host with another workspace root
Rerooted(w, root) == [w EXCEPT !.root = root]

\* C25: for an identity of a package, resolve_path fails with AccessDenied
\* when no package-repository root is configured, whether or not the
\* workspace holds a file of that virtual path; with a repository root it
\* fails with NotFound when the joined path does not exist; the workspace
\* root has no part in the answer.
C25_PackageIdentity ==
    (AskedSandbox /\ last.id.package # NoPackage) =>
        /\ ~world.package_path.some => last.ret.resolved.r = AccessDenied
        /\ (world.package_path.some /\ ~exists(platform, JoinedPath(world, last.id)))
                => last.ret.resolved.r = NotFound(JoinedPath(world, last.id))
        /\ (last.ret.resolved.r.ok /\ last.ret.read.some)
                => last.ret.read.v = JoinedPath(world, last.id)
        /\ \A root \in HostRoots \cup {<<>>, <<"t">>, <<"t", "pk">>} :
                resolve_path(platform, Rerooted(world, root), last.id)
                    = last.ret.resolved.r

\* without a package-repository root the host has refused an identity of a
\* package whose virtual path names a file of the workspace
C25_Witness ==
    /\ AskedSandbox /\ last.id = FileId(PreviewMylib, <<"a.typ">>)
    /\ ~world.package_path.some
    /\ exists(platform, join(world.root, last.id.vpath))
    /\ last.ret.resolved.r = AccessDenied
    /\ ~last.ret.read.some

-----------------------------------------------------------------------------
(* The current date *)

\* the calendar fields of the clock at a fixed UTC offset of h hours
FieldsAt(now_utc, h) == [day |-> (now_utc + h) \div 24, hour |-> (now_utc + h) % 24]

\* C26: for every hour offset h supplied (a 64-bit signed integer), today
\* returns none or the calendar fields at exactly the fixed UTC offset of h
\* hours, and never a date at another offset, for h outside the range of a
\* signed byte in particular.
C26_TodayAtOffset ==
    (last.op = "today" /\ last.offset.some) =>
        \/ last.ret = None
        \/ last.ret = Some(FieldsAt(last.now_utc, last.offset.v))

-----------------------------------------------------------------------------
(* The caches of the host *)

\* C27: in every state of a host the source cache and the binary cache are
\* empty, after construction, update_source, compile, source and file alike;
\* a request for the source or the bytes of an identity other than the main
\* one calls resolve_path and, when the path resolves, reads the file.
C27_CachesEmpty ==
    /\ world.live => world.source_cache = {} /\ world.binary_cache = {}
    /\ (last.op \in {"source", "file"} /\ last.id # world.main_id) =>
            /\ last.ret.resolved.called
            /\ last.ret.resolved.r = resolve_path(platform, world, last.id)
            /\ last.ret.resolved.r.ok <=> last.ret.read.some
            /\ last.ret.resolved.r.ok => last.ret.read.v = last.ret.resolved.r.v

\* after an update of the main text the host has been asked for the source of
\* a.typ and has read it from the workspace, with both caches empty
C27_Witness ==
    /\ last.op = "source" /\ last.id = FileId(NoPackage, <<"a.typ">>)
    /\ world.main_source.text # <<>>
    /\ world.source_cache = {} /\ world.binary_cache = {}
    /\ last.ret.read = Some(<<"t", "ws", "a.typ">>)
    /\ last.ret.result = Ok(Source(last.id, <<97, 10, 98>>))

-----------------------------------------------------------------------------
(* A session compiled again and again *)

\* the live allocations of heap h
LiveIn(h) == {a \in Addr : Live(h, a)}

\* C28: a session can be compiled again whatever it has compiled before, with
\* the same or another source: the compile returns a document and an array of
\* diagnostics that are new allocations, distinct from all that are live, and
\* it releases and changes nothing of the results of earlier compiles: their
\* allocations, page counts and contents are as before, and only the session
\* itself, whose main text is replaced, differs.
C28_RepeatedCompiles ==
    \A c \in sessions, src \in SourceInputs :
        Let(typst_net_compiler_compile(heap, platform, c, src), LAMBDA again :
            /\ AllocationsIn(again.heap, again.result) \cap LiveIn(heap) = {}
            /\ AllocationsIn(again.heap, again.result) \subseteq LiveIn(again.heap)
            /\ again.result.success => again.result.document \in Arena("document")
            /\ LiveIn(again.heap) = LiveIn(heap) \cup AllocationsIn(again.heap, again.result)
            /\ \A a \in LiveIn(heap) \ {c} : again.heap[a] = heap[a]
            /\ \A x \in results :
                    /\ AllocationsIn(again.heap, x) = AllocationsIn(heap, x)
                    /\ document_page_count(again.heap, x.document)
                            = document_page_count(heap, x.document)
                    /\ document_render_all_pages_svg(again.heap, x.document).array.len
                            = document_render_all_pages_svg(heap, x.document).array.len
                    /\ Len(DiagnosticsIn(again.heap, x)) = Len(DiagnosticsIn(heap, x))
                    /\ \A i \in 1..Len(DiagnosticsIn(heap, x)) :
                            Said(again.heap, DiagnosticsIn(again.heap, x)[i])
                                = Said(heap, DiagnosticsIn(heap, x)[i]))

\* a session has compiled a document of two pages, the caller holds that
\* result, and the session is live to be compiled again
C28_Witness ==
    /\ last.op = "compile" /\ last.compiler \in sessions
    /\ last.source = Span(SrcTwo)
    /\ last.ret \in results /\ last.ret.document # NULL
    /\ document_page_count(heap, last.ret.document) = 2
    /\ Let(typst_net_compiler_compile(heap, platform, last.compiler, Span(SrcBad)),
           LAMBDA again :
               /\ ~again.result.success /\ again.result.diagnostics_len = 2
               /\ MainText(again.heap, last.compiler) = SrcBad
               /\ document_page_count(again.heap, last.ret.document) = 2)

-----------------------------------------------------------------------------
(* What update_source and compile leave alone *)

\* the host without its main text
HostFrame(w) ==
    [root |-> w.root, package_path |-> w.package_path, library |-> w.library,
     main_id |-> w.main_id, fonts |-> w.fonts, source_cache |-> w.source_cache,
     binary_cache |-> w.binary_cache]

\* C29: update_source and compile change nothing of the host but the main
\* text: the workspace root, the package-repository root, the library inputs,
\* the main identity and the font inventory stay as construction made them,
\* and font answers the same for every index; compile leaves the main text
\* as well.
C29_HostFrame ==
    [][last'.op \in {"update_source", "world_compile"} =>
            /\ world'.live
            /\ HostFrame(world') = HostFrame(world)
            /\ \A index \in 0..3 : font(world', index) = font(world, index)
            /\ last'.op = "update_source" =>
                    world'.main_source = Source(world.main_id, last'.text)
            /\ last'.op = "world_compile" => world' = world]_vars

\* the main text of a host with a package path, inputs and the system's
\* fonts has been replaced
C29_Witness ==
    /\ last.op = "update_source" /\ last.text = SrcTwo
    /\ world.main_source.text = SrcTwo
    /\ world.package_path = Some(<<"t", "pk">>)
    /\ world.fonts = <<"system", "embedded">>
    /\ font(world, 0) = Some("system") /\ font(world, 2) = None

-----------------------------------------------------------------------------
(* The source of a compile *)

\* the text a source stands for: empty when the pointer is null or the length 0
TextOf(src) == IF Absent(src) THEN <<>> ELSE src.bytes

\* heap h with another main text in the session
WithMainText(h, compiler, text) ==
    [h EXCEPT ![compiler].value.world = update_source(@, text)]

\* C30: a compile that reaches the engine has set the main text to the source
\* of that call before: to the empty text when the pointer is null or the
\* length 0, whatever the session held.  Its result is the engine's for that
\* text, and is the same whatever text an earlier compile left in the session.
C30_CompileSetsMainText ==
    /\ (last.op = "compile" /\ ~EarlyReturn(last.compiler, last.source)) =>
            /\ MainText(heap, last.compiler) = TextOf(last.source)
            /\ Let(BackendWorld_compile(platform,
                        update_source(heap[last.compiler].value.world,
                                      TextOf(last.source))),
                   LAMBDA engine :
                       /\ last.ret.success = engine.success
                       /\ last.ret.diagnostics_len = Len(engine.diagnostics)
                       /\ document_page_count(heap, last.ret.document)
                            = IF engine.success THEN page_count(engine.document.v) ELSE 0)
    /\ \A c \in sessions, src \in SourceInputs \cup {Span(<<>>)} :
            Let(typst_net_compiler_compile(heap, platform, c, src), LAMBDA now :
                \A earlier \in {SrcTwo, SrcBad} :
                    Let(typst_net_compiler_compile(WithMainText(heap, c, earlier),
                                                   platform, c, src),
                        LAMBDA other :
                            /\ other.result = now.result
                            /\ ~EarlyReturn(c, src) =>
                                    /\ other.heap = now.heap
                                    /\ MainText(other.heap, c) = TextOf(src)))

\* a session has been given a null source: its main text is empty and the
\* result is the engine's for the empty text, a document of one page, while a
\* session that held the text of a failed compile would have given the same
C30_Witness ==
    /\ last.op = "compile" /\ last.compiler \in sessions
    /\ last.source = NullSpan
    /\ MainText(heap, last.compiler) = <<>>
    /\ last.ret.success /\ document_page_count(heap, last.ret.document) = 1
    /\ typst_net_compiler_compile(WithMainText(heap, last.compiler, SrcBad),
                                  platform, last.compiler, NullSpan).result.success

====
